---- MODULE Spec2Model ----
(***************************************************************************)
(* Cross-border semantic negotiation: the three negotiation programs of    *)
(* the repository and the record transformation as state machines.         *)
(*   - enhanced_server.py : EnhancedSemanticNegotiator.negotiate           *)
(*   - server.py          : SemanticNegotiator.negotiate_schemas           *)
(*   - cross_border_implementation.py : EuropeanDigitalServiceAgent        *)
(*       process_cross_border_request and transform_citizen_data           *)
(* Confidences are fixed-point numbers in units of 1/10000 (0.95 = 9500).  *)
(* A mean that the code keeps unrounded is kept exact as [num, den].       *)
(***************************************************************************)
EXTENDS Integers, Sequences, FiniteSets, TLC

VARIABLES
    prog,        \* which program this behaviour runs: "enhanced", "similarity", "server", "agent",
                 \* "transform", "manager", "demo"
    e_pc,        \* enhanced_server: the step of EnhancedSemanticNegotiator.negotiate
    e_await,     \* enhanced_server: what negotiate awaits in that step
    e_request,   \* enhanced_server: the NegotiationRequest (source_schema, target_schema)
    e_scores,    \* enhanced_server: `confidence` and the branch taken, per (source, target) pair
    e_claude,    \* enhanced_server: claude_results (similarities)
    e_mistral,   \* enhanced_server: mistral_results (alignments, total, overall_confidence)
    e_code,      \* enhanced_server: transformation_code, one entry per alignment
    e_result,    \* enhanced_server: the NegotiationResult returned
    s_pc,        \* server: position in SemanticNegotiator.negotiate_schemas
    s_input,     \* server: the italian_schema and german_schema passed in
    session_store, \* server: the global session_store, session id -> session
    s_concepts,  \* server: italian_concepts and german_concepts
    s_alignments,\* server: the local list `alignments`
    s_rules,     \* server: transformation_rules
    s_overall,   \* server: overall_confidence, as [num, den, e]
    s_outcome,   \* server: how the call ended: None, "returned" or "raised"
    a_pc,        \* agent: position in process_cross_border_request
    a_agent,     \* agent: the EuropeanDigitalServiceAgent's confidence_threshold
    a_call,      \* agent: the citizen's country of origin and the target country
    active_requests, \* agent: self.active_requests, request id -> CrossBorderRequest
    a_outcome,   \* agent: how the call ended: None, "returned" or "raised"
    t_pc,        \* transform: position in transform_citizen_data
    t_request,   \* transform: the CrossBorderRequest passed in (countries, alignments)
    t_source,    \* transform: source_dict, field name -> value
    t_result,    \* transform: transformed_data as returned
    t_outcome,   \* transform: how the call ended: None, "returned" or "raised"
    m_class,     \* manager: the file whose ConnectionManager this is
    m_pc,        \* manager: position in the ConnectionManager.broadcast in progress
    active_connections, \* manager: self.active_connections, a list of websockets
    m_dead,      \* manager: the websockets whose client has gone: send_text raises
    m_call,      \* manager: active_connections as it was when broadcast was called on its own
    m_copy,      \* manager: the copy that the for statement of that broadcast iterates over
    m_index,     \* manager: how many items the list iterator has handed out
    m_connection,\* manager: the loop variable `connection`
    m_delivered, \* manager: the websockets whose send_text returned
    m_disconnected, \* manager: the websockets that disconnect was called with
    m_raised,    \* manager: the calls that raised ValueError, of "broadcast" and "disconnect"
    d_pc,        \* demo: per negotiation, the number of broadcasts made, or Raised
    d_pending,   \* demo: per negotiation, the connections its broadcast has still to send to
    d_request,   \* demo: per negotiation, the NegotiationRequest
    d_alignments,\* demo: per negotiation, the local list `alignments`
    d_overall,   \* demo: per negotiation, overall_confidence, as [num, den, e]
    d_result,    \* demo: per negotiation, the result returned
    d_sent       \* demo: per negotiation, the messages it handed to manager.broadcast

e_vars == <<e_pc, e_await, e_request, e_scores, e_claude, e_mistral, e_code, e_result>>
s_vars == <<s_pc, s_input, session_store, s_concepts, s_alignments, s_rules, s_overall, s_outcome>>
a_vars == <<a_pc, a_agent, a_call, active_requests, a_outcome>>
t_vars == <<t_pc, t_request, t_source, t_result, t_outcome>>
m_vars == <<m_class, m_pc, active_connections, m_dead, m_call, m_copy, m_index, m_connection,
           m_delivered, m_disconnected, m_raised>>
d_vars == <<d_pc, d_pending, d_request, d_alignments, d_overall, d_result, d_sent>>

None == "None"

\* A local variable of a coroutine that holds a dict, before its assignment.
Unassigned == [assigned |-> FALSE]

(***************************************************************************)
(* Bounds of the model.                                                    *)
(***************************************************************************)
\* Largest number of fields of a schema handed to a negotiation.
MaxFields == 2

(***************************************************************************)
(* Strings.  TLA+ strings are atoms, so every field name, type and         *)
(* description the model uses is spelled here; lower(), split() and the    *)
(* substring test `in` are computed on the spelling.                       *)
(***************************************************************************)
Chars(s) ==
    CASE s = "" -> << >>
      [] s = "nome" -> <<"n", "o", "m", "e">>
      [] s = "Nome" -> <<"N", "o", "m", "e">>
      [] s = "NOME" -> <<"N", "O", "M", "E">>
      [] s = "cognome" -> <<"c", "o", "g", "n", "o", "m", "e">>
      [] s = "id" -> <<"i", "d">>
      [] s = "sesso" -> <<"s", "e", "s", "s", "o">>
      [] s = "firstName" -> <<"f", "i", "r", "s", "t", "N", "a", "m", "e">>
      [] s = "familienname" -> <<"f", "a", "m", "i", "l", "i", "e", "n", "n", "a", "m", "e">>
      [] s = "userId" -> <<"u", "s", "e", "r", "I", "d">>
      [] s = "string" -> <<"s", "t", "r", "i", "n", "g">>
      [] s = "date" -> <<"d", "a", "t", "e">>
      [] s = "number" -> <<"n", "u", "m", "b", "e", "r">>
      [] s = "family_name" -> <<"f", "a", "m", "i", "l", "y", "_", "n", "a", "m", "e">>
      [] s = "birth_date" -> <<"b", "i", "r", "t", "h", "_", "d", "a", "t", "e">>
      [] s = "codice_fiscale" -> <<"c", "o", "d", "i", "c", "e", "_", "f", "i", "s", "c", "a", "l", "e">>
      [] s = "geburtsdatum" -> <<"g", "e", "b", "u", "r", "t", "s", "d", "a", "t", "u", "m">>
      [] s = "vorname" -> <<"v", "o", "r", "n", "a", "m", "e">>
      [] s = "staatsangehoerigkeit" -> <<"s", "t", "a", "a", "t", "s", "a", "n", "g", "e", "h", "o", "e", "r", "i", "g", "k", "e", "i", "t">>
      [] s = "Family name" -> <<"F", "a", "m", "i", "l", "y", " ", "n", "a", "m", "e">>
      [] s = "Birth date" -> <<"B", "i", "r", "t", "h", " ", "d", "a", "t", "e">>
      [] s = "Italian tax code" -> <<"I", "t", "a", "l", "i", "a", "n", " ", "t", "a", "x", " ", "c", "o", "d", "e">>
      [] s = "Given name (required)" -> <<"G", "i", "v", "e", "n", " ", "n", "a", "m", "e", " ", "(", "r", "e", "q", "u", "i", "r", "e", "d", ")">>
      [] s = "Nationality" -> <<"N", "a", "t", "i", "o", "n", "a", "l", "i", "t", "y">>
      [] s = "name" -> <<"n", "a", "m", "e">>
      [] s = "place" -> <<"p", "l", "a", "c", "e">>
      [] s = "tax" -> <<"t", "a", "x">>
      [] s = "fiscal" -> <<"f", "i", "s", "c", "a", "l">>
      [] s = "required" -> <<"r", "e", "q", "u", "i", "r", "e", "d">>
      [] s = "data_nascita" -> <<"d", "a", "t", "a", "_", "n", "a", "s", "c", "i", "t", "a">>
      [] s = "luogo_nascita" -> <<"l", "u", "o", "g", "o", "_", "n", "a", "s", "c", "i", "t", "a">>
      [] s = "genitori" -> <<"g", "e", "n", "i", "t", "o", "r", "i">>
      [] s = "datum" -> <<"d", "a", "t", "u", "m">>
      [] s = "15/03/1985" -> <<"1", "5", "/", "0", "3", "/", "1", "9", "8", "5">>
      [] s = "31/02/1985" -> <<"3", "1", "/", "0", "2", "/", "1", "9", "8", "5">>
      [] s = "5/3/1985" -> <<"5", "/", "3", "/", "1", "9", "8", "5">>
      [] s = "15/03/0985" -> <<"1", "5", "/", "0", "3", "/", "0", "9", "8", "5">>
      [] s = "invalid-date" -> <<"i", "n", "v", "a", "l", "i", "d", "-", "d", "a", "t", "e">>
      [] s = "M" -> <<"M">>
      [] s = "F" -> <<"F">>
      [] s = "X" -> <<"X">>
      [] s = "MALE" -> <<"M", "A", "L", "E">>
      [] s = "FEMALE" -> <<"F", "E", "M", "A", "L", "E">>
      [] s = "Italian" -> <<"I", "t", "a", "l", "i", "a", "n">>
      [] s = "German" -> <<"G", "e", "r", "m", "a", "n">>
      [] s = "IT" -> <<"I", "T">>
      [] s = "DE" -> <<"D", "E">>
      [] s = "FR" -> <<"F", "R">>
      [] s = "Rossi" -> <<"R", "o", "s", "s", "i">>
      [] s = "Marco" -> <<"M", "a", "r", "c", "o">>
      [] s = "Roma" -> <<"R", "o", "m", "a">>
      [] s = "RSSMRC85C15H501Z" -> <<"R", "S", "S", "M", "R", "C", "8", "5", "C", "1", "5", "H", "5", "0", "1", "Z">>
      [] s = "123456789" -> <<"1", "2", "3", "4", "5", "6", "7", "8", "9">>
      [] s = "Giuseppe Rossi" -> <<"G", "i", "u", "s", "e", "p", "p", "e", " ", "R", "o", "s", "s", "i">>
      [] s = "Maria Bianchi" -> <<"M", "a", "r", "i", "a", " ", "B", "i", "a", "n", "c", "h", "i">>
      [] s = "unknown" -> <<"u", "n", "k", "n", "o", "w", "n">>

UpperToLower ==
    "A" :> "a" @@ "B" :> "b" @@ "C" :> "c" @@ "D" :> "d" @@ "E" :> "e" @@
    "F" :> "f" @@ "G" :> "g" @@ "H" :> "h" @@ "I" :> "i" @@ "J" :> "j" @@
    "K" :> "k" @@ "L" :> "l" @@ "M" :> "m" @@ "N" :> "n" @@ "O" :> "o" @@
    "P" :> "p" @@ "Q" :> "q" @@ "R" :> "r" @@ "S" :> "s" @@ "T" :> "t" @@
    "U" :> "u" @@ "V" :> "v" @@ "W" :> "w" @@ "X" :> "x" @@ "Y" :> "y" @@
    "Z" :> "z"

\* str.lower() on a spelling.
lower(cs) ==
    [i \in 1..Len(cs) |-> IF cs[i] \in DOMAIN UpperToLower THEN UpperToLower[cs[i]] ELSE cs[i]]

\* The substring test `needle in hay`.
contains(hay, needle) ==
    \E k \in 0..(Len(hay) - Len(needle)) : SubSeq(hay, k + 1, k + Len(needle)) = needle

\* str.split(sep): the pieces between separators, empty pieces included.
RECURSIVE split(_, _)
split(cs, sep) ==
    IF \A i \in 1..Len(cs) : cs[i] /= sep
    THEN <<cs>>
    ELSE LET k == CHOOSE i \in 1..Len(cs) :
                      cs[i] = sep /\ \A j \in 1..(i - 1) : cs[j] /= sep
         IN  <<SubSeq(cs, 1, k - 1)>> \o split(SubSeq(cs, k + 1, Len(cs)), sep)

Range(f) == {f[i] : i \in DOMAIN f}

\* The sequences of at most n distinct-name fields drawn from a pool: a schema
\* is a dict, so its keys are distinct and keep their insertion order.
SchemasOver(pool, n) ==
    {s \in UNION {[1..k -> pool] : k \in 0..n} :
        \A i, j \in DOMAIN s : i /= j => s[i].name /= s[j].name}

\* The draws of random(): 0.0, an inner point and 1 - 2^-53, the greatest.
Draws == 1..3

(***************************************************************************)
(* Python floats.  A confidence is computed in doubles from decimal        *)
(* literals; a double is kept as the decimal it stands for, k in units of  *)
(* 1/10000, and its distance e from that decimal in units of 2^-68 / 625,  *)
(* so that k/10000 + e * 2^-68/625 is the double exactly.                  *)
(***************************************************************************)
\* 2^s modulo m.
RECURSIVE pow2mod(_, _)
pow2mod(s, m) == IF s = 0 THEN 1 % m ELSE (2 * pow2mod(s - 1, m)) % m

\* 2^s modulo 625 and modulo 1250, for the exponents that the doubles between
\* 2^-15 and 2^7 need.
residues == [m \in {625, 1250} |-> [s \in 40..64 |-> pow2mod(s, m)]]

\* The exponent j of a double near k/10000 > 0: 2^j <= value < 2^(j+1).  A
\* double just below a power of two has the exponent below it.
float_exponent(k, e) ==
    LET reaches(x) == IF x >= 0 THEN 10000 * 2 ^ x <= k
                      ELSE k >= 10000 \/ 10000 <= k * 2 ^ (0 - x)
        is_power(x) == IF x >= 0 THEN 10000 * 2 ^ x = k
                       ELSE k < 10000 /\ 10000 = k * 2 ^ (0 - x)
        j == CHOOSE x \in -15..6 : reaches(x) /\ ~reaches(x + 1)
    IN  IF is_power(j) /\ e < 0 THEN j - 1 ELSE j

\* The distance of the decimal k/10000 from the double of exponent j below it
\* (two doubles of exponent j are 625 * 2^(j+16) apart), and whether that
\* double has an odd last bit.
float_offset(k, j) == 2 ^ (j + 16) * ((k * residues[625][48 - j]) % 625)

float_odd_below(k, j) == (k * residues[1250][48 - j]) % 1250 >= 625

\* The multiple of step nearest to p + b/64, for 0 <= b < 64, a half going to
\* the even double.
nearest_multiple(p, b, step, odd_below) ==
    LET m == p \div step
        r == p - m * step
    IN  IF 2 * r < step THEN m * step
        ELSE IF 2 * r > step \/ b > 0 THEN (m + 1) * step
        ELSE IF (m % 2 = 1) <=> odd_below THEN m * step ELSE (m + 1) * step

\* The double nearest to k/10000 + e * 2^-68/625, for k > 0.
float_round(k, e) ==
    LET j   == float_exponent(k, e)
        off == float_offset(k, j)
    IN  [k |-> k,
         e |-> nearest_multiple(off + e, 0, 625 * 2 ^ (j + 16), float_odd_below(k, j)) - off]

\* The double that a decimal literal (or the result of round(x, 3)) is.
float_literal(k) ==
    IF k = 0 THEN [k |-> 0, e |-> 0]
    ELSE [k |-> k, e |-> (IF k > 0 THEN 1 ELSE -1) * float_round(IF k > 0 THEN k ELSE 0 - k, 0).e]

\* x + y in doubles; a negative sum rounds as its opposite does.
float_add(x, y) ==
    IF x.k + y.k = 0 THEN [k |-> 0, e |-> 0]
    ELSE [k |-> x.k + y.k,
          e |-> (IF x.k + y.k > 0 THEN 1 ELSE -1)
                * float_round(IF x.k + y.k > 0 THEN x.k + y.k ELSE 0 - (x.k + y.k),
                              IF x.k + y.k > 0 THEN x.e + y.e ELSE 0 - (x.e + y.e)).e]

\* The double below the positive double x.
float_below(x) ==
    [x EXCEPT !.e = @ - 625 * 2 ^ (float_exponent(x.k, x.e - 1) + 16)]

\* x * 2^-s for a double x: a product by a power of two is exact.
float_scaled(x, s) == [k |-> x.k \div 2 ^ s, e |-> x.e \div 2 ^ s]

\* random.uniform(a, b) is a + (b - a) * random(), in doubles, b - a being
\* rounded, then the product, then the sum.  At random() = 0.0 it is a; at
\* the greatest random() the product is the double below b - a and the sum
\* may or may not reach b; the inner point is the one at random() = 2^-s for
\* the s that leaves an odd number of ten-thousandths of b - a, so that the
\* product is exact and round(x, 3) has something to round.
uniform(a, b, draw) ==
    CASE draw = 1 -> float_literal(a)
      [] draw = 2 -> float_add(float_literal(a),
                               float_scaled(float_add(float_literal(b), float_literal(0 - a)),
                                            CHOOSE s \in 0..4 : (b - a) % 2 ^ (s + 1) = 2 ^ s))
      [] draw = 3 -> float_add(float_literal(a),
                               float_below(float_add(float_literal(b), float_literal(0 - a))))

\* x < y in doubles.
float_less(x, y) == x.k < y.k \/ (x.k = y.k /\ x.e < y.e)

\* min(x, y) of two doubles: the first unless the second is less.
float_min(x, y) == IF float_less(y, x) THEN y ELSE x

\* round(x, 3) of a non-negative double x, in units of 1/10000: the decimal
\* nearest to the double itself, so that a double that stands for a decimal
\* ending in 5 goes to the side it lies on.
round3(x) ==
    LET r == x.k % 10
        b == x.k - r
    IN  IF r < 5 THEN b
        ELSE IF r > 5 THEN b + 10
        ELSE IF x.e > 0 THEN b + 10
        ELSE IF x.e < 0 THEN b
        ELSE IF (b \div 10) % 2 = 0 THEN b ELSE b + 10

\* round(total / n, 3) for the double total and n > 0: the division is
\* rounded to a double before round() reads it.
round3_div(total, n) ==
    LET d   == 10 * n
        q   == total.k \div d
        rem == total.k % d
        tie == total.k \div n
        j   == float_exponent(tie, total.e)
        off == n * float_offset(tie, j)
        gap == nearest_multiple(off + total.e, 0, n * 625 * 2 ^ (j + 16),
                                float_odd_below(tie, j)) - off
    IN  IF 2 * rem < d THEN 10 * q
        ELSE IF 2 * rem > d THEN 10 * (q + 1)
        ELSE IF gap > 0 THEN 10 * (q + 1)
        ELSE IF gap < 0 THEN 10 * q
        ELSE IF q % 2 = 0 THEN 10 * q ELSE 10 * (q + 1)

\* round(total / n * 100, 1), and the percentage of f"{total / n:.1%}", in
\* units of 0.01%: the quotient is rounded to a double, then its product by
\* 100, and the decimal nearest to that double is taken.  The second
\* rounding is computed in units 64 times coarser, 100 e = 64 a + b.
percent1(total, n) ==
    LET d    == 10 * n
        q    == total.k \div d
        rem  == total.k % d
        tie  == total.k \div n
        j    == float_exponent(tie, total.e)
        off  == n * float_offset(tie, j)
        gap  == (nearest_multiple(off + total.e, 0, n * 625 * 2 ^ (j + 16),
                                  float_odd_below(tie, j)) - off) \div n
        k2   == 100 * tie
        j2   == float_exponent(k2, gap)
        step == 625 * 2 ^ (j2 + 10)
        off2 == 2 ^ (j2 + 10) * ((k2 * residues[625][48 - j2]) % 625)
        a    == 25 * (gap \div 16) + (100 * (gap % 16)) \div 64
        b    == (100 * (gap % 16)) % 64
        gap2 == nearest_multiple(off2 + a, b, step,
                    (k2 * residues[1250][48 - j2]) % 1250 >= 625) - off2
    IN  IF 2 * rem < d THEN 10 * q
        ELSE IF 2 * rem > d THEN 10 * (q + 1)
        ELSE IF gap2 > 0 THEN 10 * (q + 1)
        ELSE IF gap2 < 0 THEN 10 * q
        ELSE IF q % 2 = 0 THEN 10 * q ELSE 10 * (q + 1)

\* The sum of a list of doubles as `total += x` from 0.0 computes it.
RECURSIVE float_sum(_, _)
float_sum(total, xs) ==
    IF xs = << >> THEN total ELSE float_sum(float_add(total, Head(xs)), Tail(xs))

RECURSIVE SumSeq(_)
SumSeq(s) == IF s = << >> THEN 0 ELSE Head(s) + SumSeq(Tail(s))

(***************************************************************************)
(* enhanced_server.py: MockClaudeService.analyze_semantic_similarity       *)
(***************************************************************************)
semantic_mappings ==
    "nome" :> <<"firstName", "first_name", "givenName">> @@
    "cognome" :> <<"lastName", "last_name", "surname", "familyName">> @@
    "codice_fiscale" :> <<"taxId", "tax_id", "fiscalCode">> @@
    "data_nascita" :> <<"birthDate", "birth_date", "dateOfBirth">> @@
    "luogo_nascita" :> <<"birthPlace", "birth_place", "placeOfBirth">> @@
    "user_id" :> <<"personalId", "personal_id", "userId", "id">> @@
    "firstName" :> <<"nome", "first_name", "givenName">> @@
    "lastName" :> <<"cognome", "last_name", "surname">> @@
    "personalId" :> <<"user_id", "userId", "id">> @@
    "taxId" :> <<"codice_fiscale", "fiscal_code", "tax_id">> @@
    "birthDate" :> <<"data_nascita", "birth_date", "dateOfBirth">> @@
    "birthPlace" :> <<"luogo_nascita", "birth_place", "placeOfBirth">>

EXACT_CONFIDENCE == 9500
SEMANTIC_BASE == 8500
PARTIAL_BASE == 6000
TYPE_BASE == 3000
CLAUDE_FLOOR == 3000

\* The exact-match test without .lower(); C9 tells it from the code.
exact_match_case_sensitive(source_field, target_field) ==
    Chars(source_field) = Chars(target_field)

\* Line 111: the exact-match test.
exact_match(source_field, target_field) ==
    lower(Chars(source_field)) = lower(Chars(target_field))

\* The branch of the if/elif chain (lines 111-129) taken for one pair.  The
\* second branch is entered for every source field that is a key of
\* semantic_mappings, whether or not the target is listed under it; the
\* nested test decides only whether a confidence is assigned.
score_branch(source, target) ==
    IF exact_match(source.name, target.name) THEN "exact"
    ELSE IF source.name \in DOMAIN semantic_mappings
         THEN IF target.name \in Range(semantic_mappings[source.name])
              THEN "semantic" ELSE "unlisted"
    ELSE IF \E part \in Range(split(lower(Chars(source.name)), "_")) :
                contains(lower(Chars(target.name)), part)
         THEN "partial"
    ELSE IF source.type = target.type THEN "type"
    ELSE "none"

\* `confidence` after the chain, for the branch taken and the draw of
\* random.uniform made in it.
branch_confidence(branch, draw) ==
    CASE branch = "exact" -> EXACT_CONFIDENCE
      [] branch = "semantic" -> SEMANTIC_BASE + uniform(500, 1000, draw).k
      [] branch = "partial" -> PARTIAL_BASE + uniform(1000, 2000, draw).k
      [] branch = "type" -> TYPE_BASE + uniform(1000, 2000, draw).k
      [] OTHER -> 0

\* The same sums in doubles (lines 112, 118, 123, 128): how far the double
\* `confidence` lies from the decimal of branch_confidence, for every branch
\* and draw.
branch_errors ==
    [branch \in {"exact", "semantic", "partial", "type", "unlisted", "none"} |->
        [draw \in Draws |->
            CASE branch = "exact" -> float_literal(EXACT_CONFIDENCE).e
              [] branch = "semantic" ->
                    float_add(float_literal(SEMANTIC_BASE),
                              uniform(500, 1000, draw)).e
              [] branch = "partial" ->
                    float_add(float_literal(PARTIAL_BASE),
                              uniform(1000, 2000, draw)).e
              [] branch = "type" ->
                    float_add(float_literal(TYPE_BASE),
                              uniform(1000, 2000, draw)).e
              [] OTHER -> 0]]

\* The comparison of line 131 with >= for >, which lets a later target of the
\* same confidence replace the best one; C5 tells it from the code.
improves_or_ties(confidence, best_confidence) == confidence >= best_confidence

\* Line 131: whether a candidate replaces the best one so far.
improves(confidence, best_confidence) == confidence > best_confidence

\* Lines 107-134: the scan of the target fields for one source field.
RECURSIVE scan_targets(_, _, _, _)
scan_targets(target_fields, confidences, j, best) ==
    IF j > Len(target_fields) THEN best
    ELSE scan_targets(target_fields, confidences, j + 1,
            IF \/ improves(confidences[j].confidence, best.best_confidence)
               \/ /\ confidences[j].confidence = best.best_confidence
                  /\ confidences[j].error > best.best_error
            THEN [best_match |-> target_fields[j].name,
                  best_confidence |-> confidences[j].confidence,
                  best_error |-> confidences[j].error,
                  best_explanation |-> confidences[j].branch]
            ELSE best)

\* Line 136: `if best_match and best_confidence > 0.3` (an empty name is falsy).
accepted(best) ==
    /\ best.best_match /= None
    /\ best.best_match /= ""
    /\ best.best_confidence > CLAUDE_FLOOR

\* The (confidence, branch) of every pair, given the draws; error is the
\* distance of the double from the decimal confidence.
pair_scores(source_fields, target_fields, draw) ==
    [i \in 1..Len(source_fields) |->
        [j \in 1..Len(target_fields) |->
            LET b == score_branch(source_fields[i], target_fields[j])
            IN  [confidence |-> branch_confidence(b, draw[i][j]), branch |-> b,
                 error |-> branch_errors[b][draw[i][j]]]]]

RECURSIVE similarities_from(_, _, _, _)
similarities_from(source_fields, target_fields, scores, i) ==
    IF i > Len(source_fields) THEN << >>
    ELSE LET best == scan_targets(target_fields, scores[i], 1,
                        [best_match |-> None, best_confidence |-> 0, best_error |-> 0,
                         best_explanation |-> None])
         IN  (IF accepted(best)
              THEN <<[source_field |-> source_fields[i].name,
                      target_field |-> best.best_match,
                      confidence |-> round3([k |-> best.best_confidence,
                                             e |-> best.best_error]),
                      explanation |-> best.best_explanation]>>
              ELSE << >>)
             \o similarities_from(source_fields, target_fields, scores, i + 1)

(***************************************************************************)
(* enhanced_server.py: MockMistralService.make_alignment_decisions         *)
(***************************************************************************)
REFINED_CAP == 9900

\* Lines 163-177: the refinement of one similarity, for one draw, as a
\* double: the similarity's confidence is the double that round(x, 3) gave.
refined_confidence(confidence, draw) ==
    float_min(float_add(float_literal(confidence),
                        IF confidence > 8000 THEN uniform(200, 800, draw)
                        ELSE IF confidence > 6000 THEN uniform(-500, 500, draw)
                        ELSE uniform(-1000, 200, draw)),
              float_literal(REFINED_CAP))

decision_method(confidence) ==
    IF confidence > 8000 THEN "High-confidence semantic match"
    ELSE IF confidence > 6000 THEN "Medium-confidence contextual match"
    ELSE "Low-confidence structural match"

\* Lines 161-196.
alignment_decisions(similarities, draw) ==
    LET refined == [k \in 1..Len(similarities) |->
                        refined_confidence(similarities[k].confidence, draw[k])]
        alignments == [k \in 1..Len(similarities) |->
                        [source_field |-> similarities[k].source_field,
                         target_field |-> similarities[k].target_field,
                         confidence |-> round3(refined[k]),
                         method |-> decision_method(similarities[k].confidence),
                         explanation |-> similarities[k].explanation]]
        total_confidence == float_sum(float_literal(0), refined)
    IN  [alignments |-> alignments,
         total_confidence |-> total_confidence.k,
         overall_confidence |->
            IF Len(alignments) > 0
            THEN round3_div(total_confidence, Len(alignments)) ELSE 0]

(***************************************************************************)
(* enhanced_server.py: TransformationGenerator.generate_transformation_code*)
(***************************************************************************)
\* Lines 216-234: the kind of code emitted for one alignment.
code_kind(confidence) ==
    IF confidence > 8000 THEN "direct_mapping"
    ELSE IF confidence > 6000 THEN "mapping_with_validation"
    ELSE "manual_review_required"

(***************************************************************************)
(* server.py: SemanticNegotiator._extract_concepts                         *)
(* A schema is the ordered `properties` dict: one entry per field, with    *)
(* its field_info (type, description; type None when the key is missing),  *)
(* whether the name is in `required`, and whether field_info is a mapping  *)
(* at all (field_info.get raises AttributeError when it is not).           *)
(***************************************************************************)
\* The f-string of line 407, as its three interpolated parts.
concept_text(field) ==
    <<field.name, IF field.type = None THEN "" ELSE field.type, field.description>>

\* The characters of "{name}: {type} - {description}".
text_chars(text) ==
    Chars(text[1]) \o <<":", " ">> \o Chars(text[2]) \o <<" ", "-", " ">> \o Chars(text[3])

\* field_info.get raises AttributeError for a field_info that is no mapping.
extract_concepts_raises(schema) == \E k \in 1..Len(schema) : ~schema[k].mapping

extract_concepts(schema, source) ==
    [k \in 1..Len(schema) |->
        [name |-> schema[k].name,
         type |-> IF schema[k].type = None THEN "string" ELSE schema[k].type,
         description |-> schema[k].description,
         required |-> schema[k].required,
         source |-> source,
         text |-> concept_text(schema[k])]]

(***************************************************************************)
(* server.py: MockClaudeService.find_similar_concepts                      *)
(***************************************************************************)
\* Lines 76-90: the similarity of one target to the source concept.
concept_similarity(source_text, target_text) ==
    LET s == lower(text_chars(source_text))
        t == lower(text_chars(target_text))
    IN  IF contains(s, Chars("name")) /\ contains(t, Chars("name")) THEN 9000
        ELSE IF contains(s, Chars("date")) /\ contains(t, Chars("date")) THEN 8500
        ELSE IF contains(s, Chars("place")) /\ contains(t, Chars("place")) THEN 8000
        ELSE IF contains(s, Chars("tax")) \/ contains(s, Chars("fiscal")) THEN 6000
        ELSE 4000

\* Which of the entries of greatest similarity a descending sort puts first:
\* list.sort is stable, also with reverse=True, so it is the earliest.
first_of_greatest(similarities) ==
    CHOOSE k \in 1..Len(similarities) :
        /\ \A j \in 1..Len(similarities) :
              similarities[j].similarity <= similarities[k].similarity
        /\ \A j \in 1..(k - 1) :
              similarities[j].similarity < similarities[k].similarity

\* Line 97: similarities.sort(key=lambda x: x[1], reverse=True).
RECURSIVE sort_by_similarity(_)
sort_by_similarity(similarities) ==
    IF similarities = << >> THEN << >>
    ELSE LET k == first_of_greatest(similarities)
         IN  <<similarities[k]>>
             \o sort_by_similarity(SubSeq(similarities, 1, k - 1)
                                   \o SubSeq(similarities, k + 1, Len(similarities)))

\* Lines 71-100.
find_similar_concepts(source_concept, target_concepts) ==
    sort_by_similarity(
        [j \in 1..Len(target_concepts) |->
            [target |-> target_concepts[j],
             similarity |-> concept_similarity(source_concept, target_concepts[j])]])

(***************************************************************************)
(* server.py: MockMistralService.generate_alignment_decision               *)
(***************************************************************************)
\* transformation_rule = None (line 149): no rule.
NoRule == [type |-> None]

\* Lines 149-180: the transformation rule, from the source field's name.
transformation_rule_for(source_name) ==
    LET n == lower(Chars(source_name))
    IN  IF contains(n, Chars("date"))
        THEN [type |-> "data_conversion", source_format |-> "DD/MM/YYYY",
              target_format |-> "ISO8601"]
        ELSE IF contains(n, Chars("name"))
        THEN [type |-> "field_mapping", source_format |-> "italian_naming",
              target_format |-> "german_naming"]
        ELSE IF contains(n, Chars("fiscal")) \/ contains(n, Chars("tax"))
        THEN [type |-> "identity_derivation", source_format |-> "codice_fiscale",
              target_format |-> "nationality"]
        ELSE NoRule

Min(a, b) == IF a < b THEN a ELSE b

\* Lines 183-195: the final confidence.
final_confidence(source_concept, best_target, similarity, transformation_rule) ==
    LET base == Min(similarity + 1000, 10000)
        with_rule == IF transformation_rule /= NoRule THEN base + 500 ELSE base
        with_required ==
            IF source_concept.required
               /\ contains(lower(text_chars(best_target)), Chars("required"))
            THEN with_rule + 300 ELSE with_rule
    IN  Min(with_required, 10000)

\* Lines 126-133: the decision returned when there is no candidate at all.
no_candidate_decision ==
    [best_match |-> "unknown", confidence |-> 5000, transformation_rule |-> NoRule]

\* Lines 118-222.  best_target.split(':')[0] is the target's name: no field
\* name of the model holds a colon.
generate_alignment_decision(source_concept, candidate_targets) ==
    IF candidate_targets = << >> THEN no_candidate_decision
    ELSE LET best_target == candidate_targets[1].target
             similarity == candidate_targets[1].similarity
             rule == transformation_rule_for(source_concept.name)
         IN  [best_match |-> best_target[1],
              confidence |-> final_confidence(source_concept, best_target,
                                              similarity, rule),
              transformation_rule |-> rule,
              similarity_score |-> similarity]

(***************************************************************************)
(* server.py: SemanticNegotiator helpers                                   *)
(***************************************************************************)
\* Line 280: int(15 + (i / len(italian_concepts)) * 70), i counted from 0, in
\* doubles.  When 70 i / n is not an integer the rounding errors cannot reach
\* the next integer.  When it is an integer m, the double i / n may lie below
\* the quotient; the product by 70 is then m or a few units in the last place
\* below it, the sum with 15 keeps or rounds away that gap, and int() of a
\* number below 15 + m is 14 + m (i = 47 of n = 70 gives 61).
concept_progress(i, n) ==
    LET \* the exponent of the integer x >= 1 as a double, one less for a
        \* power of two (the doubles just below it)
        binade_below(x) ==
            LET j == CHOOSE y \in 0..24 : 2 ^ y <= x /\ x < 2 ^ (y + 1)
            IN  IF x = 2 ^ j THEN j - 1 ELSE j
        \* a / b rounded to the nearest integer, halves to the even one
        half_even(a, b) ==
            LET q == a \div b
                r == a % b
            IN  IF 2 * r < b THEN q
                ELSE IF 2 * r > b THEN q + 1
                ELSE IF q % 2 = 0 THEN q ELSE q + 1
        \* i / n as a double: 2^-d <= i/n < 2^-(d-1), and rho is the rounding
        \* error of the quotient in units of 2^-(52+d) / n
        d   == CHOOSE y \in 1..24 : i * 2 ^ y >= n /\ i * 2 ^ (y - 1) < n
        rr  == (i * pow2mod(52 + d, n)) % n
        rho == IF 2 * rr < n THEN 0 - rr
               ELSE IF 2 * rr > n THEN n - rr
               ELSE IF (i * pow2mod(52 + d, 2 * n)) % (2 * n) < n THEN 0 - rr ELSE n - rr
        m   == (70 * i) \div n
        jp  == binade_below(m)
        t   == half_even(70 * (0 - rho), n * 2 ^ (jp + d))
        jy  == binade_below(15 + m)
    IN  IF (70 * i) % n /= 0 \/ i = 0 THEN 15 + (70 * i) \div n
        ELSE IF rho >= 0 \/ t = 0 THEN 15 + m
        ELSE IF jy > jp /\ half_even(t, 2 ^ (jy - jp)) = 0 THEN 15 + m
        ELSE 14 + m

\* Lines 426-438.  rule.update(...) changes the dict that the alignment
\* itself holds, so the alignment's own transformation_rule gains the keys.
updated_rule(alignment) ==
    [type |-> alignment.alignment.transformation_rule.type,
     source_format |-> alignment.alignment.transformation_rule.source_format,
     target_format |-> alignment.alignment.transformation_rule.target_format,
     source_field |-> alignment.source.name,
     target_field |-> alignment.alignment.best_match,
     confidence |-> alignment.alignment.confidence]

\* Line 430: `if alignment['alignment'].get('transformation_rule')`.
has_rule(alignment) == alignment.alignment.transformation_rule /= NoRule

RECURSIVE generate_transformation_rules(_)
generate_transformation_rules(alignments) ==
    IF alignments = << >> THEN << >>
    ELSE (IF has_rule(Head(alignments)) THEN <<updated_rule(Head(alignments))>> ELSE << >>)
         \o generate_transformation_rules(Tail(alignments))

alignments_after_rules(alignments) ==
    [k \in 1..Len(alignments) |->
        IF has_rule(alignments[k])
        THEN [alignments[k] EXCEPT !.alignment.transformation_rule =
                                        updated_rule(alignments[k])]
        ELSE alignments[k]]

\* Lines 440-445: the mean, kept exact; 0.0 for no alignments.
calculate_overall_confidence(alignments) ==
    IF alignments = << >> THEN [num |-> 0, den |-> 1]
    ELSE [num |-> SumSeq([k \in 1..Len(alignments) |-> alignments[k].alignment.confidence]),
          den |-> Len(alignments)]

\* Lines 358-366: _update_session writes the session only if it is in the store.
update_session(store, session_id, status, progress) ==
    IF session_id \in DOMAIN store
    THEN [store EXCEPT ![session_id] =
            [@ EXCEPT !.status = status, !.progress = progress, !.current_step = status]]
    ELSE store

\* Lines 461-466: the result of a session, << >> for the None returned when
\* the session is unknown or has no 'result' key yet.
get_session_result(store, session_id) ==
    IF session_id \in DOMAIN store THEN store[session_id].result ELSE << >>

\* f'processing_concept_{i+1}' (line 281).
processing_status(k) ==
    CASE k = 1 -> "processing_concept_1"
      [] k = 2 -> "processing_concept_2"
      [] k = 3 -> "processing_concept_3"
      [] k = 4 -> "processing_concept_4"

ServerIdle ==
    /\ s_pc = "idle"
    /\ s_input = None
    /\ session_store = << >>
    /\ s_concepts = Unassigned
    /\ s_alignments = << >>
    /\ s_rules = << >>
    /\ s_overall = Unassigned
    /\ s_outcome = None

(***************************************************************************)
(* cross_border_implementation.py: EuropeanDigitalServiceAgent             *)
(* A transformation_rule is the text before its "(": the code tests rules  *)
(* only with startswith.                                                   *)
(***************************************************************************)
\* Lines 178-181: the countries that have a schema ontology.
country_schemas ==
    "IT" :> <<"cognome", "nome", "data_nascita", "luogo_nascita", "codice_fiscale",
              "genitori", "sesso">> @@
    "DE" :> <<"familienname", "vorname", "geburtsdatum", "geburtsort",
              "staatsangehoerigkeit", "eltern", "geschlecht">>

\* Lines 192-338: data_type of every concept of the two schema ontologies,
\* and the concepts that declare an `enum`.
concept_data_type ==
    "cognome" :> "string" @@ "nome" :> "string" @@ "data_nascita" :> "date" @@
    "luogo_nascita" :> "string" @@ "codice_fiscale" :> "string" @@
    "genitori" :> "object" @@ "sesso" :> "string" @@
    "familienname" :> "string" @@ "vorname" :> "string" @@ "geburtsdatum" :> "date" @@
    "geburtsort" :> "string" @@ "staatsangehoerigkeit" :> "string" @@
    "eltern" :> "array" @@ "geschlecht" :> "string"

concept_enum ==
    "sesso" :> <<"M", "F">> @@ "geschlecht" :> <<"MALE", "FEMALE", "DIVERSE">>

\* Lines 506-514: the predefined alignments of the fallback.
demo_alignments ==
    << <<"cognome", "familienname", 9500, "exact", "DIRECT_MAP">>,
       <<"nome", "vorname", 9300, "exact", "DIRECT_MAP">>,
       <<"data_nascita", "geburtsdatum", 8700, "exact", "DATE_FORMAT_TRANSFORM">>,
       <<"luogo_nascita", "geburtsort", 9100, "exact", "DIRECT_MAP">>,
       <<"genitori", "eltern", 7800, "related", "STRUCTURE_TRANSFORM">>,
       <<"sesso", "geschlecht", 8900, "exact", "ENUM_TRANSFORM">>,
       <<"codice_fiscale", "staatsangehoerigkeit", 6500, "related", "DERIVE_NATIONALITY">> >>

\* Lines 501-526.
fallback_rule_based_alignment ==
    [k \in 1..Len(demo_alignments) |->
        [source_field |-> demo_alignments[k][1],
         target_field |-> demo_alignments[k][2],
         confidence_score |-> demo_alignments[k][3],
         alignment_type |-> demo_alignments[k][4],
         transformation_rule |-> demo_alignments[k][5]]]

\* Line 445: the confidence score the fallback sets.
FALLBACK_CONFIDENCE == 8500

\* Lines 528-539.
generate_transformation_rule(matching) ==
    IF matching.confidence >= 9000 THEN "DIRECT_MAP"
    ELSE IF matching.confidence >= 7000 THEN "TRANSFORM"
    ELSE "MANUAL_REVIEW"

\* Lines 485-499.
process_alignments(matchings) ==
    [k \in 1..Len(matchings) |->
        [source_field |-> matchings[k].source_concept,
         target_field |-> matchings[k].target_concept,
         confidence_score |-> matchings[k].confidence,
         alignment_type |-> matchings[k].relation,
         transformation_rule |-> generate_transformation_rule(matchings[k])]]

\* Lines 541-549: later alignments of a source field overwrite earlier ones.
RECURSIVE build_transformation_map(_, _)
build_transformation_map(alignments, confidence_threshold) ==
    IF alignments = << >> THEN << >>
    ELSE LET last == alignments[Len(alignments)]
             rest == build_transformation_map(
                        SubSeq(alignments, 1, Len(alignments) - 1), confidence_threshold)
         IN  IF last.confidence_score >= confidence_threshold
             THEN (last.source_field :> last.target_field) @@ rest
             ELSE rest

\* The decision with the boundary excluded (a strict comparison); C2 tells it
\* from the decision of the code.
request_status_strict(confidence_score, confidence_threshold) ==
    IF confidence_score > confidence_threshold
    THEN "approved" ELSE "requires_manual_review"

\* Lines 379-384: the decision on the request.
request_status(confidence_score, confidence_threshold) ==
    IF confidence_score >= confidence_threshold
    THEN "approved" ELSE "requires_manual_review"

\* What the OntoAligner pipeline of lines 405-431 can do: raise, or return
\* (matchings, evaluation).  The library is outside the repository; these are
\* the response of tests/test_semantic_negotiation.py (mock_ontoaligner_response)
\* and three others.  A matching without 'relation' reads as 'related', and an
\* evaluation without 'f-score' as 0.
AlignerOutcomes ==
    { [ok |-> FALSE, matchings |-> << >>, f_score |-> 0],
      [ok |-> TRUE,
       matchings |-> << [source_concept |-> "cognome", target_concept |-> "familienname",
                         confidence |-> 9500, relation |-> "exact"],
                        [source_concept |-> "nome", target_concept |-> "vorname",
                         confidence |-> 9300, relation |-> "exact"] >>,
       f_score |-> 85],
      [ok |-> TRUE,
       matchings |-> << [source_concept |-> "data_nascita", target_concept |-> "geburtsdatum",
                         confidence |-> 7500, relation |-> "related"],
                        [source_concept |-> "sesso", target_concept |-> "geschlecht",
                         confidence |-> 6000, relation |-> "related"] >>,
       f_score |-> 80],
      [ok |-> TRUE,
       matchings |-> << [source_concept |-> "cognome", target_concept |-> "familienname",
                         confidence |-> 9200, relation |-> "exact"] >>,
       f_score |-> 90],
      [ok |-> TRUE, matchings |-> << >>, f_score |-> 0] }

AgentIdle ==
    /\ a_pc = "idle"
    /\ a_agent = None
    /\ a_call = None
    /\ active_requests = << >>
    /\ a_outcome = None

(***************************************************************************)
(* cross_border_implementation.py: transform_citizen_data and the value    *)
(* conversions.  A Python value is a record with its type as `kind`: a str *)
(* holds its characters, a dict its (key, value) items in insertion order. *)
(* A call that can raise gives [raises, value].                            *)
(***************************************************************************)
StrOf(cs) == [kind |-> "str", chars |-> cs]

Str(s) == StrOf(Chars(s))

PyNone == [kind |-> "NoneType"]

PyInt(n) == [kind |-> "int", n |-> n]

PyDict(items) == [kind |-> "dict", items |-> items]

PyList(items) == [kind |-> "list", items |-> items]

\* The truth value of `if v` (line 642).
truthy(v) ==
    CASE v.kind = "str" -> v.chars /= << >>
      [] v.kind = "NoneType" -> FALSE
      [] v.kind = "int" -> v.n /= 0
      [] OTHER -> v.items /= << >>

returns(v) == [raises |-> FALSE, value |-> v]

raises_TypeError == [raises |-> TRUE, value |-> PyNone]

DigitValue ==
    "0" :> 0 @@ "1" :> 1 @@ "2" :> 2 @@ "3" :> 3 @@ "4" :> 4 @@
    "5" :> 5 @@ "6" :> 6 @@ "7" :> 7 @@ "8" :> 8 @@ "9" :> 9

DigitChar == <<"0", "1", "2", "3", "4", "5", "6", "7", "8", "9">>

IsDigit(c) == c \in DOMAIN DigitValue

\* strptime's %d, the regex (3[0-1]|[1-2]\d|0[1-9]|[1-9]| [1-9]): the day,
\* or 0 when the piece does not match.
strptime_day(cs) ==
    IF Len(cs) = 2 /\ cs[1] = "3" /\ cs[2] \in {"0", "1"}
    THEN 30 + DigitValue[cs[2]]
    ELSE IF Len(cs) = 2 /\ cs[1] \in {"1", "2"} /\ IsDigit(cs[2])
    THEN 10 * DigitValue[cs[1]] + DigitValue[cs[2]]
    ELSE IF Len(cs) = 2 /\ cs[1] \in {"0", " "} /\ IsDigit(cs[2]) /\ cs[2] /= "0"
    THEN DigitValue[cs[2]]
    ELSE IF Len(cs) = 1 /\ IsDigit(cs[1]) /\ cs[1] /= "0"
    THEN DigitValue[cs[1]]
    ELSE 0

\* strptime's %m, the regex (1[0-2]|0[1-9]|[1-9]): the month, or 0.
strptime_month(cs) ==
    IF Len(cs) = 2 /\ cs[1] = "1" /\ cs[2] \in {"0", "1", "2"}
    THEN 10 + DigitValue[cs[2]]
    ELSE IF Len(cs) = 2 /\ cs[1] = "0" /\ IsDigit(cs[2]) /\ cs[2] /= "0"
    THEN DigitValue[cs[2]]
    ELSE IF Len(cs) = 1 /\ IsDigit(cs[1]) /\ cs[1] /= "0"
    THEN DigitValue[cs[1]]
    ELSE 0

\* strptime's %Y, the regex \d\d\d\d: the year, or 0 (year 0 is no date).
strptime_year(cs) ==
    IF Len(cs) = 4 /\ \A k \in 1..4 : IsDigit(cs[k])
    THEN 1000 * DigitValue[cs[1]] + 100 * DigitValue[cs[2]]
            + 10 * DigitValue[cs[3]] + DigitValue[cs[4]]
    ELSE 0

is_leap(year) == year % 4 = 0 /\ (year % 100 /= 0 \/ year % 400 = 0)

days_in_month(year, month) ==
    IF month = 2 THEN (IF is_leap(year) THEN 29 ELSE 28)
    ELSE IF month \in {4, 6, 9, 11} THEN 30
    ELSE 31

\* Line 629: datetime.strptime(date_value, "%d/%m/%Y") on a str.  The whole
\* string has to match, and the date has to exist; `ok` is FALSE where
\* strptime raises ValueError.
strptime(cs) ==
    LET pieces == split(cs, "/")
    IN  IF Len(pieces) /= 3 THEN [ok |-> FALSE, year |-> 0, month |-> 0, day |-> 0]
        ELSE LET day == strptime_day(pieces[1])
                 month == strptime_month(pieces[2])
                 year == strptime_year(pieces[3])
             IN  [ok |-> /\ day > 0
                         /\ month > 0
                         /\ year > 0
                         /\ day <= days_in_month(year, month),
                  year |-> year, month |-> month, day |-> day]

\* The decimal digits of n >= 0.
RECURSIVE decimal(_)
decimal(n) ==
    IF n < 10 THEN <<DigitChar[n + 1]>>
    ELSE decimal(n \div 10) \o <<DigitChar[(n % 10) + 1]>>

two_digits(n) == <<DigitChar[(n \div 10) + 1], DigitChar[(n % 10) + 1]>>

\* Line 630: date_obj.strftime("%Y-%m-%dT00:00:00Z").  The C library's %Y
\* does not pad a year below 1000.
strftime(date) ==
    decimal(date.year) \o <<"-">> \o two_digits(date.month) \o <<"-">>
        \o two_digits(date.day)
        \o <<"T", "0", "0", ":", "0", "0", ":", "0", "0", "Z">>

\* Lines 623-635.  strptime raises TypeError for a value that is no str, and
\* only ValueError is caught.
transform_date_format(date_value, source_country, target_country) ==
    IF source_country = "IT" /\ target_country = "DE"
    THEN IF date_value.kind /= "str" THEN raises_TypeError
         ELSE LET date == strptime(date_value.chars)
              IN  IF date.ok THEN returns(StrOf(strftime(date)))
                  ELSE returns(date_value)
    ELSE returns(date_value)

\* Line 642: [v for v in value.values() if v].
RECURSIVE truthy_values(_)
truthy_values(items) ==
    IF items = << >> THEN << >>
    ELSE (IF truthy(Head(items)[2]) THEN <<Head(items)[2]>> ELSE << >>)
         \o truthy_values(Tail(items))

\* Lines 637-645.
transform_data_structure(value, alignment) ==
    IF alignment.source_field = "genitori" /\ alignment.target_field = "eltern"
    THEN IF value.kind = "dict" THEN PyList(truthy_values(value.items))
         ELSE value
    ELSE value

\* Lines 651-654.
gender_map == Chars("M") :> Str("MALE") @@ Chars("F") :> Str("FEMALE")

\* Lines 647-656.  dict.get hashes its key: a dict or a list raises TypeError.
transform_enum_value(value, source_field, target_field) ==
    IF source_field = "sesso" /\ target_field = "geschlecht"
    THEN IF value.kind \in {"dict", "list"} THEN raises_TypeError
         ELSE IF value.kind = "str" /\ value.chars \in DOMAIN gender_map
         THEN returns(gender_map[value.chars])
         ELSE returns(value)
    ELSE returns(value)

\* The derivation with the tax code itself returned for a country without a
\* derivation; C16 tells it from the code.
derive_nationality_or_tax_code(tax_code, source_country) ==
    IF source_country = "IT" THEN Str("Italian")
    ELSE IF source_country = "DE" THEN Str("German")
    ELSE tax_code

\* Lines 658-666; source_country.value is the country code.
derive_nationality_from_tax_code(tax_code, source_country) ==
    IF source_country = "IT" THEN Str("Italian")
    ELSE IF source_country = "DE" THEN Str("German")
    ELSE Str(source_country)

\* Lines 597-621.
apply_field_transformation(value, alignment, source_country, target_country) ==
    CASE alignment.transformation_rule = "DIRECT_MAP" -> returns(value)
      [] alignment.transformation_rule = "DATE_FORMAT_TRANSFORM" ->
            transform_date_format(value, source_country, target_country)
      [] alignment.transformation_rule = "STRUCTURE_TRANSFORM" ->
            returns(transform_data_structure(value, alignment))
      [] alignment.transformation_rule = "ENUM_TRANSFORM" ->
            transform_enum_value(value, alignment.source_field, alignment.target_field)
      [] alignment.transformation_rule = "DERIVE_NATIONALITY" ->
            returns(derive_nationality_from_tax_code(value, source_country))
      [] OTHER -> returns(value)

\* transformed_data[key] = value.
set_item(data, key, value) ==
    [k \in (DOMAIN data) \cup {key} |-> IF k = key THEN value ELSE data[k]]

\* Lines 576-587: the loop over request.alignments, from the k-th on.
RECURSIVE apply_alignments(_, _, _, _)
apply_alignments(request, source_dict, k, transformed_data) ==
    IF k > Len(request.alignments) THEN returns(transformed_data)
    ELSE LET alignment == request.alignments[k]
         IN  IF alignment.source_field \in DOMAIN source_dict
             THEN LET transformed_value ==
                          apply_field_transformation(
                              source_dict[alignment.source_field], alignment,
                              request.source_country, request.target_country)
                  IN  IF transformed_value.raises THEN [raises |-> TRUE, value |-> << >>]
                      ELSE apply_alignments(request, source_dict, k + 1,
                              set_item(transformed_data, alignment.target_field,
                                       transformed_value.value))
             ELSE apply_alignments(request, source_dict, k + 1, transformed_data)

\* Lines 589-593: the special case for the nationality.
nationality_special_case(request, source_dict, transformed_data) ==
    IF "codice_fiscale" \in DOMAIN source_dict /\ request.target_country = "DE"
    THEN set_item(transformed_data, "staatsangehoerigkeit",
                  derive_nationality_from_tax_code(source_dict["codice_fiscale"],
                                                   request.source_country))
    ELSE transformed_data

\* Lines 551-595.  A dataclass instance reads as the dict of its fields
\* (lines 567-569), so source_dict is the record either way.
transform(request, source_dict) ==
    LET looped == apply_alignments(request, source_dict, 1, << >>)
    IN  IF looped.raises THEN looped
        ELSE returns(nationality_special_case(request, source_dict, looped.value))

\* Line 595: the call returns transformed_data alone.  A failed date
\* conversion is printed (line 634); no list of warnings is kept or returned.
returned_warnings == << >>

TransformIdle ==
    /\ t_pc = "idle"
    /\ t_request = None
    /\ t_source = << >>
    /\ t_result = << >>
    /\ t_outcome = None

(***************************************************************************)
(* enhanced_server.py and enhanced_demo.py: ConnectionManager              *)
(***************************************************************************)
MaxConnections == 3

ManagerClasses == {"enhanced_server", "enhanced_demo"}

\* `x in list`.
list_contains(list, x) == \E i \in DOMAIN list : list[i] = x

\* list.remove(x) for an x that is in the list: the first occurrence goes.
list_remove(list, x) ==
    LET i == CHOOSE k \in DOMAIN list : list[k] = x /\ \A j \in 1..(k - 1) : list[j] /= x
    IN  SubSeq(list, 1, i - 1) \o SubSeq(list, i + 1, Len(list))

\* The lists of distinct websockets that connect() can have built.
ConnectionLists ==
    {l \in UNION {[1..k -> {"ws1", "ws2", "ws3"}] : k \in 0..MaxConnections} :
        \A i, j \in DOMAIN l : i /= j => l[i] /= l[j]}

\* The list that the for statement of broadcast walks: enhanced_demo.py line 38
\* walks the copy self.active_connections[:] taken at the call,
\* enhanced_server.py line 42 walks self.active_connections itself.
iterated(class, copy, connections) ==
    IF class = "enhanced_demo" THEN copy ELSE connections

\* One __next__ of a list iterator that has handed out `index` items: it reads
\* the list as it is now, so a removal before `index` makes it pass over an item.
for_next(list, index) ==
    IF index < Len(list)
    THEN [stop |-> FALSE, item |-> list[index + 1], index |-> index + 1]
    ELSE [stop |-> TRUE, item |-> None, index |-> index]

\* The end of an awaited connection.send_text(message), lines 43-47
\* (enhanced_demo.py 39-42): it returned, or it raised and the except clause
\* removes the connection from the list as it is now; list.remove raises
\* ValueError out of broadcast when a disconnect has removed it meanwhile.
send_text_end(connections, connection, dead) ==
    IF connection \notin dead
    THEN [connections |-> connections, delivered |-> {connection}, raised |-> FALSE]
    ELSE IF list_contains(connections, connection)
    THEN [connections |-> list_remove(connections, connection), delivered |-> {},
          raised |-> FALSE]
    ELSE [connections |-> connections, delivered |-> {}, raised |-> TRUE]

\* The clients that visit while a negotiation runs, at most.
MaxListeners == 2

\* The fields of the requests, the negotiations and the clients of one
\* behaviour together.
MaxNegotiationSize == 4

\* The websockets that connect was called with.
connected == Range(active_connections) \cup m_dead

\* How many clients visit during one behaviour, at most.
visitors ==
    CASE prog = "manager" -> MaxConnections
      [] prog = "enhanced" ->
            Min(MaxListeners, MaxNegotiationSize - Len(e_request.source_schema)
                                  - Len(e_request.target_schema))
      [] prog = "demo" ->
            Min(MaxListeners, MaxNegotiationSize - Len(d_request)
                    - SumSeq([t \in DOMAIN d_request |-> Len(d_request[t].source_schema)]))
      [] OTHER -> 0

\* The manager of `class` with no client yet.
ManagerListening(class) ==
    /\ m_class = class
    /\ m_pc = "idle"
    /\ active_connections = << >>
    /\ m_dead = {}
    /\ m_call = << >>
    /\ m_copy = << >>
    /\ m_index = 0
    /\ m_connection = None
    /\ m_delivered = {}
    /\ m_disconnected = {}
    /\ m_raised = {}

ManagerIdle ==
    /\ m_class = None
    /\ m_pc = "idle"
    /\ active_connections = << >>
    /\ m_dead = {}
    /\ m_call = << >>
    /\ m_copy = << >>
    /\ m_index = 0
    /\ m_connection = None
    /\ m_delivered = {}
    /\ m_disconnected = {}
    /\ m_raised = {}

(***************************************************************************)
(* enhanced_demo.py: EnhancedNegotiator.negotiate                          *)
(***************************************************************************)
\* The source fields of all the negotiations of one behaviour together.
MaxDemoFields == 2

\* The negotiations that the /negotiate route has started as tasks.
MaxNegotiations == 2

\* Lines 125-132: the mappings of _mock_semantic_analysis.
demo_mappings ==
    [nome |-> "firstName", cognome |-> "lastName", codice_fiscale |-> "taxId",
     data_nascita |-> "birthDate", luogo_nascita |-> "birthPlace", user_id |-> "personalId"]

\* A schema is a dict whose values negotiate never reads: its keys, in order.
DemoRequests ==
    [source_country : {"IT"}, target_country : {"DE"},
     source_schema :
        {s \in UNION {[1..k -> {"nome", "cognome", "email"}] : k \in 0..MaxDemoFields} :
            \A i, j \in DOMAIN s : i /= j => s[i] /= s[j]},
     target_schema : {<<"firstName", "lastName">>, <<"firstName">>}]

\* Lines 135-138: the source fields, in order, that get an alignment.
RECURSIVE demo_aligned_fields(_, _)
demo_aligned_fields(source_schema, target_schema) ==
    IF source_schema = << >> THEN << >>
    ELSE LET source_field == Head(source_schema)
             rest == demo_aligned_fields(Tail(source_schema), target_schema)
         IN  IF /\ source_field \in DOMAIN demo_mappings
                /\ list_contains(target_schema, demo_mappings[source_field])
             THEN <<source_field>> \o rest
             ELSE rest

\* Lines 135-147: _mock_semantic_analysis; draws[i] is the random.uniform(0, 0.1)
\* of the i-th alignment.  The confidence is a double that is never rounded:
\* error is its distance from the decimal.  The explanation string is left out.
mock_semantic_analysis(source_schema, target_schema, draws) ==
    LET fields == demo_aligned_fields(source_schema, target_schema)
    IN  [i \in DOMAIN fields |->
            LET confidence == float_add(float_literal(8500),
                                        uniform(0, 1000, draws[i]))
            IN  [source_field |-> fields[i],
                 target_field |-> demo_mappings[fields[i]],
                 confidence   |-> confidence.k,
                 error        |-> confidence.e,
                 method       |-> "Semantic mapping"]]

\* The double that an alignment's confidence is.
demo_confidence(alignment) == [k |-> alignment.confidence, e |-> alignment.error]

\* Lines 80-81: the refinement of every alignment; draws[i] is its
\* random.uniform(-0.05, 0.1).
refine_alignments(alignments, draws) ==
    [i \in DOMAIN alignments |->
        LET capped == float_min(float_add(demo_confidence(alignments[i]),
                                          uniform(-500, 1000, draws[i])),
                                float_literal(9900))
        IN  [alignments[i] EXCEPT !.confidence = capped.k, !.error = capped.e]]

\* sum(a['confidence'] for a in alignments): the doubles added from the left.
demo_confidence_sum(alignments) ==
    float_sum(float_literal(0), [i \in DOMAIN alignments |-> demo_confidence(alignments[i])])

\* Lines 70 and 83: sum(...) / len(alignments) if alignments else 0; num/den
\* is the exact mean of the decimals and e the distance of the double sum from
\* num.
demo_mean(alignments) ==
    IF alignments = << >> THEN [num |-> 0, den |-> 1, e |-> 0]
    ELSE [num |-> demo_confidence_sum(alignments).k, den |-> Len(alignments),
          e |-> demo_confidence_sum(alignments).e]

\* f"{x:.1%}": the mean as a percentage with one decimal, in units of 0.01%.
format_percent(mean) ==
    IF mean.num = 0 THEN 0 ELSE percent1([k |-> mean.num, e |-> mean.e], mean.den)

\* Line 102: round(overall_confidence * 100, 1), in the unit of the
\* confidences (1/10000): 0.875 becomes 87.5, which is 875000.
demo_result_confidence(mean) ==
    IF mean.num = 0 THEN 0 ELSE 100 * percent1([k |-> mean.num, e |-> mean.e], mean.den)

\* Lines 149-172 and line 91: len(code.split()) of _generate_code.
RECURSIVE demo_code_words(_)
demo_code_words(alignments) ==
    IF alignments = << >> THEN 7
    ELSE (IF float_less(float_literal(8000), demo_confidence(Head(alignments)))
          THEN 7 ELSE 11)
         + demo_code_words(Tail(alignments))

\* Lines 115-121: the message of _send_step_update; details holds the values
\* that the text interpolates.
step_update(step, status, details) ==
    [type |-> "step_update", step |-> step, status |-> status, details |-> details]

\* Lines 101-111: the result and the final_result message.  The strings
\* transformation_code and compliance_notes are left out.
demo_result(alignments, overall) ==
    [overall_confidence |-> demo_result_confidence(overall), alignments |-> alignments]

final_result(result) == [type |-> "final_result", result |-> result]

\* The eleven messages of negotiate by their number in the order of the code
\* (lines 59-111), with the values of the locals when the message is built.
demo_update(number, request, alignments, overall) ==
    CASE number = 1  -> step_update(1, "active",
                            <<Len(request.source_schema), Len(request.target_schema)>>)
      [] number = 2  -> step_update(1, "completed", << >>)
      [] number = 3  -> step_update(2, "active", << >>)
      [] number = 4  -> step_update(2, "completed",
                            <<Len(alignments), format_percent(demo_mean(alignments))>>)
      [] number = 5  -> step_update(3, "active", << >>)
      [] number = 6  -> step_update(3, "completed", <<format_percent(overall)>>)
      [] number = 7  -> step_update(4, "active", << >>)
      [] number = 8  -> step_update(4, "completed", <<demo_code_words(alignments)>>)
      [] number = 9  -> step_update(5, "active", << >>)
      [] number = 10 -> step_update(5, "completed", << >>)
      [] number = 11 -> final_result(demo_result(alignments, overall))

\* The number of the last message that negotiate broadcasts before it is
\* suspended again, when it goes on after message `number`: a broadcast to
\* connections awaits the first send_text, one to no connection awaits
\* nothing, an asyncio.sleep follows every 'active' update (the odd numbers)
\* and the return follows message 11.
RECURSIVE last_update(_, _)
last_update(number, connections) ==
    IF connections /= << >> \/ number + 1 \in {1, 3, 5, 7, 9, 11} THEN number + 1
    ELSE last_update(number + 1, connections)

DemoIdle ==
    /\ d_pc = << >>
    /\ d_pending = << >>
    /\ d_request = << >>
    /\ d_alignments = << >>
    /\ d_overall = << >>
    /\ d_result = << >>
    /\ d_sent = << >>

(***************************************************************************)
(* enhanced_server.py: EnhancedSemanticNegotiator.negotiate                *)
(***************************************************************************)
EnhancedSourcePool ==
    { [name |-> "Nome", type |-> "string"],
      [name |-> "nome", type |-> "string"],
      [name |-> "cognome", type |-> "string"],
      [name |-> "id", type |-> "number"],
      [name |-> "sesso", type |-> "string"] }

EnhancedTargetPool ==
    { [name |-> "nome", type |-> "string"],
      [name |-> "NOME", type |-> "date"],
      [name |-> "firstName", type |-> "string"],
      [name |-> "familienname", type |-> "string"],
      [name |-> "userId", type |-> "number"] }

EnhancedIdle ==
    /\ e_pc = "idle"
    /\ e_await = "idle"
    /\ e_request = None
    /\ e_scores = << >>
    /\ e_claude = Unassigned
    /\ e_mistral = Unassigned
    /\ e_code = << >>
    /\ e_result = Unassigned

\* Lines 297-398: the awaits of negotiate in the order of the code, as the
\* step and what is awaited there: the send_text of the broadcast of the
\* 'active' update, the asyncio.sleep of the step (lines 303, 79, 156, 204
\* and 252), the send_text of the broadcast of the 'completed' update and of
\* the final result; the last entry is the return.
negotiate_awaits ==
    << <<"step1", "active">>, <<"step1", "sleep">>, <<"step1", "completed">>,
       <<"step2", "active">>, <<"step2", "sleep">>, <<"step2", "completed">>,
       <<"step3", "active">>, <<"step3", "sleep">>, <<"step3", "completed">>,
       <<"step4", "active">>, <<"step4", "sleep">>, <<"step4", "completed">>,
       <<"step5", "active">>, <<"step5", "sleep">>, <<"step5", "completed">>,
       <<"final", "result">>, <<"returned", "done">> >>

\* The await of negotiate that follows await `index` when the list holds
\* `connections`: broadcast awaits nothing when the list is empty.
RECURSIVE next_await(_, _)
next_await(index, connections) ==
    IF connections /= << >> \/ negotiate_awaits[index + 1][2] \in {"sleep", "done"}
    THEN index + 1
    ELSE next_await(index + 1, connections)

\* negotiate goes on after its await `index` up to its next await: it is
\* suspended in the first send_text of a broadcast or in a sleep, or it has
\* returned the NegotiationResult of lines 376-398.
negotiate_resume(index, connections) ==
    LET at == negotiate_awaits[next_await(index, connections)]
    IN  /\ e_pc' = at[1]
        /\ e_await' = at[2]
        /\ m_pc' = IF at[2] \in {"sleep", "done"} THEN "idle" ELSE "sending"
        /\ m_index' = IF at[2] \in {"sleep", "done"} THEN 0 ELSE 1
        /\ m_connection' = IF at[2] \in {"sleep", "done"} THEN None ELSE connections[1]
        /\ e_result' = IF at[1] = "returned"
                       THEN [overall_confidence |-> e_mistral.overall_confidence,
                             alignments |-> e_mistral.alignments,
                             transformation_code |-> e_code]
                       ELSE e_result

\* negotiate is resumed from the sleep of `step`.
negotiate_wakes(step) ==
    /\ prog = "enhanced"
    /\ e_pc = step
    /\ e_await = "sleep"
    /\ negotiate_resume(CHOOSE index \in DOMAIN negotiate_awaits :
                            negotiate_awaits[index] = <<step, "sleep">>, active_connections)
    /\ UNCHANGED <<prog, e_request, m_class, active_connections, m_dead, m_call, m_copy,
                   m_delivered, m_disconnected, m_raised, s_vars, a_vars, t_vars, d_vars>>

InitEnhanced ==
    /\ prog = "enhanced"
    /\ e_pc = "step1"
    /\ e_await = "start"
    /\ e_request \in [source_schema : SchemasOver(EnhancedSourcePool, MaxFields),
                      target_schema : SchemasOver(EnhancedTargetPool, MaxFields)]
    /\ e_scores = << >>
    /\ e_claude = Unassigned
    /\ e_mistral = Unassigned
    /\ e_code = << >>
    /\ e_result = Unassigned
    /\ ServerIdle
    /\ AgentIdle
    /\ TransformIdle
    /\ ManagerListening("enhanced_server")
    /\ DemoIdle

\* Lines 293-301: negotiate is called and runs to its first await.
negotiate ==
    /\ prog = "enhanced"
    /\ e_pc = "step1"
    /\ e_await = "start"
    /\ negotiate_resume(0, active_connections)
    /\ UNCHANGED <<prog, e_request, e_scores, e_claude, e_mistral, e_code, m_class,
                   active_connections, m_dead, m_call, m_copy, m_delivered, m_disconnected,
                   m_raised, s_vars, a_vars, t_vars, d_vars>>

\* Lines 41-47 under negotiate: the send_text that a broadcast of negotiate
\* awaits ends.  The for statement walks the list itself; when it is
\* exhausted broadcast returns and negotiate goes on, and a ValueError of the
\* except clause leaves broadcast and negotiate.
negotiate_send_text ==
    LET end  == send_text_end(active_connections, m_connection, m_dead)
        next == for_next(end.connections, m_index)
    IN  /\ prog = "enhanced"
        /\ IF end.raised
           THEN /\ e_pc' = "raised"
                /\ e_await' = "done"
                /\ m_pc' = "raised"
                /\ UNCHANGED <<m_index, m_connection, e_result>>
           ELSE IF next.stop
           THEN negotiate_resume(CHOOSE index \in DOMAIN negotiate_awaits :
                                    negotiate_awaits[index] = <<e_pc, e_await>>,
                                 end.connections)
           ELSE /\ m_index' = next.index
                /\ m_connection' = next.item
                /\ UNCHANGED <<e_pc, e_await, m_pc, e_result>>
        /\ active_connections' = end.connections
        /\ m_delivered' = m_delivered \cup end.delivered
        /\ m_raised' = IF end.raised THEN m_raised \cup {"broadcast"} ELSE m_raised
        /\ UNCHANGED <<prog, e_request, e_scores, e_claude, e_mistral, e_code, m_class, m_dead,
                       m_call, m_copy, m_disconnected, s_vars, a_vars, t_vars, d_vars>>

\* Lines 400-407: the send_text of a step update ends.
broadcast_step_update ==
    /\ e_await \in {"active", "completed"}
    /\ negotiate_send_text

\* Lines 297-308: step 1, schema analysis: the sleep of line 303 ends.
negotiate_schema_analysis ==
    /\ negotiate_wakes("step1")
    /\ UNCHANGED <<e_scores, e_claude, e_mistral, e_code>>

\* Lines 310-326 with 77-148: step 2, MockClaudeService.analyze_semantic_similarity
\* after its sleep.
analyze_semantic_similarity ==
    /\ negotiate_wakes("step2")
    /\ LET source_fields == e_request.source_schema
           target_fields == e_request.target_schema
       IN  \E draw \in [1..Len(source_fields) -> [1..Len(target_fields) -> Draws]] :
             LET scores == pair_scores(source_fields, target_fields, draw)
             IN  /\ e_scores' = scores
                 /\ e_claude' = [similarities |->
                        similarities_from(source_fields, target_fields, scores, 1)]
    /\ UNCHANGED <<e_mistral, e_code>>

\* Lines 328-341 with 154-196: step 3, MockMistralService.make_alignment_decisions
\* after its sleep.
make_alignment_decisions ==
    /\ negotiate_wakes("step3")
    /\ \E draw \in [1..Len(e_claude.similarities) -> Draws] :
         e_mistral' = alignment_decisions(e_claude.similarities, draw)
    /\ UNCHANGED <<e_scores, e_claude, e_code>>

\* Lines 343-356 with 202-244: step 4, generate_transformation_code after its
\* sleep.
generate_transformation_code ==
    /\ negotiate_wakes("step4")
    /\ e_code' = [k \in 1..Len(e_mistral.alignments) |->
                    [source_field |-> e_mistral.alignments[k].source_field,
                     target_field |-> e_mistral.alignments[k].target_field,
                     kind |-> code_kind(e_mistral.alignments[k].confidence)]]
    /\ UNCHANGED <<e_scores, e_claude, e_mistral>>

\* Lines 358-371 with 250-252: step 5, validate_compliance after its sleep
\* (static notes).
validate_compliance ==
    /\ negotiate_wakes("step5")
    /\ UNCHANGED <<e_scores, e_claude, e_mistral, e_code>>

\* Lines 373-398: the send_text of the final result ends; the
\* NegotiationResult is returned when the broadcast has.
negotiate_return ==
    /\ e_await = "result"
    /\ negotiate_send_text

(***************************************************************************)
(* enhanced_server.py: MockClaudeService.analyze_semantic_similarity called*)
(* on its own, on schemas that may hold a field with the empty name.       *)
(***************************************************************************)
InitSimilarity ==
    /\ prog = "similarity"
    /\ e_pc = "call"
    /\ e_await = "idle"
    /\ e_request \in
          [source_schema :
              SchemasOver(EnhancedSourcePool \cup {[name |-> "", type |-> "string"]}, 1),
           target_schema :
              SchemasOver(EnhancedTargetPool \cup {[name |-> "", type |-> "string"]},
                          MaxFields)]
    /\ e_scores = << >>
    /\ e_claude = Unassigned
    /\ e_mistral = Unassigned
    /\ e_code = << >>
    /\ e_result = Unassigned
    /\ ServerIdle
    /\ AgentIdle
    /\ TransformIdle
    /\ ManagerIdle
    /\ DemoIdle

\* Lines 77-148: the call, from its sleep of line 79 to the return.
analyze_semantic_similarity_alone ==
    /\ prog = "similarity"
    /\ e_pc = "call"
    /\ e_pc' = "returned"
    /\ LET source_fields == e_request.source_schema
           target_fields == e_request.target_schema
       IN  \E draw \in [1..Len(source_fields) -> [1..Len(target_fields) -> Draws]] :
             LET scores == pair_scores(source_fields, target_fields, draw)
             IN  /\ e_scores' = scores
                 /\ e_claude' = [similarities |->
                        similarities_from(source_fields, target_fields, scores, 1)]
    /\ UNCHANGED <<prog, e_await, e_request, e_mistral, e_code, e_result,
                   s_vars, a_vars, t_vars, m_vars, d_vars>>

(***************************************************************************)
(* server.py: SemanticNegotiator.negotiate_schemas                         *)
(***************************************************************************)
ItalianPool ==
    { [name |-> "cognome", type |-> "string", description |-> "Family name",
       required |-> TRUE, mapping |-> TRUE],
      [name |-> "family_name", type |-> None, description |-> "",
       required |-> TRUE, mapping |-> TRUE],
      [name |-> "birth_date", type |-> "date", description |-> "",
       required |-> TRUE, mapping |-> TRUE],
      [name |-> "data_nascita", type |-> "date", description |-> "Birth date",
       required |-> TRUE, mapping |-> TRUE],
      [name |-> "codice_fiscale", type |-> "string", description |-> "Italian tax code",
       required |-> FALSE, mapping |-> TRUE],
      [name |-> "sesso", type |-> "string", description |-> "",
       required |-> FALSE, mapping |-> TRUE],
      [name |-> "id", type |-> "", description |-> "",
       required |-> FALSE, mapping |-> FALSE] }

GermanPool ==
    { [name |-> "familienname", type |-> "string", description |-> "Family name",
       required |-> TRUE, mapping |-> TRUE],
      [name |-> "geburtsdatum", type |-> "date", description |-> "Birth date",
       required |-> TRUE, mapping |-> TRUE],
      [name |-> "vorname", type |-> "string", description |-> "Given name (required)",
       required |-> TRUE, mapping |-> TRUE],
      [name |-> "staatsangehoerigkeit", type |-> "string", description |-> "Nationality",
       required |-> FALSE, mapping |-> TRUE] }

\* str(uuid.uuid4()) of line 243.
session_id == "session-1"

InitServer ==
    /\ prog = "server"
    /\ s_pc = "call"
    /\ s_input \in [italian_schema : SchemasOver(ItalianPool, MaxFields),
                    german_schema : SchemasOver(GermanPool, MaxFields)]
    /\ session_store = << >>
    /\ s_concepts = Unassigned
    /\ s_alignments = << >>
    /\ s_rules = << >>
    /\ s_overall = Unassigned
    /\ s_outcome = None
    /\ EnhancedIdle
    /\ AgentIdle
    /\ TransformIdle
    /\ ManagerIdle
    /\ DemoIdle

\* Lines 243-252: the session is created in the global store.
negotiate_schemas_begin ==
    /\ prog = "server"
    /\ s_pc = "call"
    /\ s_pc' = "analyzing_schemas"
    /\ session_store' = session_id :>
            [status |-> "started", progress |-> 0, current_step |-> "initializing",
             result |-> << >>]
    /\ UNCHANGED <<prog, s_input, s_concepts, s_alignments, s_rules, s_overall,
                   s_outcome, e_vars, a_vars, t_vars, m_vars, d_vars>>

\* Lines 256-257: step 1 is announced.
update_analyzing_schemas ==
    /\ prog = "server"
    /\ s_pc = "analyzing_schemas"
    /\ s_pc' = "extract"
    /\ session_store' = update_session(session_store, session_id, "analyzing_schemas", 5)
    /\ UNCHANGED <<prog, s_input, s_concepts, s_alignments, s_rules, s_overall,
                   s_outcome, e_vars, a_vars, t_vars, m_vars, d_vars>>

\* Lines 259-272, and 353-355 when _extract_concepts raises: the handler
\* marks the session 'error' with progress 0 and is suspended in the
\* send_json of that _update_session, before it re-raises.
extract_concepts_step ==
    /\ prog = "server"
    /\ s_pc = "extract"
    /\ IF extract_concepts_raises(s_input.italian_schema)
          \/ extract_concepts_raises(s_input.german_schema)
       THEN /\ s_pc' = "error"
            /\ session_store' = update_session(session_store, session_id, "error", 0)
            /\ UNCHANGED <<s_concepts, s_outcome>>
       ELSE /\ s_pc' = "semantic_matching"
            /\ s_concepts' = [italian |-> extract_concepts(s_input.italian_schema, "italian"),
                              german |-> extract_concepts(s_input.german_schema, "german")]
            /\ UNCHANGED <<session_store, s_outcome>>
    /\ UNCHANGED <<prog, s_input, s_alignments, s_rules, s_overall, e_vars, a_vars, t_vars, m_vars, d_vars>>

\* Line 356: the handler re-raises and the exception leaves negotiate_schemas.
negotiate_schemas_raise ==
    /\ prog = "server"
    /\ s_pc = "error"
    /\ s_pc' = "done"
    /\ s_outcome' = "raised"
    /\ UNCHANGED <<prog, s_input, session_store, s_concepts, s_alignments, s_rules, s_overall,
                   e_vars, a_vars, t_vars, m_vars, d_vars>>

\* Lines 275-276: step 2 is announced and `alignments` starts empty.
update_semantic_matching ==
    /\ prog = "server"
    /\ s_pc = "semantic_matching"
    /\ s_pc' = IF Len(s_concepts.italian) = 0 THEN "generating_transformations"
               ELSE "process_concept"
    /\ session_store' = update_session(session_store, session_id, "semantic_matching", 15)
    /\ s_alignments' = << >>
    /\ UNCHANGED <<prog, s_input, s_concepts, s_rules, s_overall, s_outcome, e_vars, a_vars, t_vars, m_vars, d_vars>>

\* Lines 278-282: a turn of the loop over italian_concepts begins with the
\* status and the progress of the concept; the coroutine then yields in
\* asyncio.sleep (lines 65-68, 94), with the alignment not yet appended.
update_processing_concept ==
    /\ prog = "server"
    /\ s_pc = "process_concept"
    /\ s_pc' = "align_concept"
    /\ session_store' = update_session(session_store, session_id,
                            processing_status(Len(s_alignments) + 1),
                            concept_progress(Len(s_alignments), Len(s_concepts.italian)))
    /\ UNCHANGED <<prog, s_input, s_concepts, s_alignments, s_rules, s_overall,
                   s_outcome, e_vars, a_vars, t_vars, m_vars, d_vars>>

\* Lines 284-308: the rest of the turn, which appends the alignment of the
\* concept.
process_concept ==
    /\ prog = "server"
    /\ s_pc = "align_concept"
    /\ LET i == Len(s_alignments)
           italian_concept == s_concepts.italian[i + 1]
           similar_concepts ==
               find_similar_concepts(italian_concept.text,
                   [j \in 1..Len(s_concepts.german) |-> s_concepts.german[j].text])
           alignment ==
               generate_alignment_decision(italian_concept,
                   SubSeq(similar_concepts, 1, Min(5, Len(similar_concepts))))
       IN  /\ s_alignments' = Append(s_alignments,
                                   [source |-> italian_concept, alignment |-> alignment])
           /\ s_pc' = IF i + 1 = Len(s_concepts.italian)
                      THEN "generating_transformations" ELSE "process_concept"
    /\ UNCHANGED <<prog, s_input, session_store, s_concepts, s_rules, s_overall,
                   s_outcome, e_vars, a_vars, t_vars, m_vars, d_vars>>

\* Line 311: step 3 is announced; negotiate_schemas is suspended in the
\* send_json of _update_session.
update_generating_transformations ==
    /\ prog = "server"
    /\ s_pc = "generating_transformations"
    /\ s_pc' = "transformation_rules"
    /\ session_store' = update_session(session_store, session_id,
                                       "generating_transformations", 90)
    /\ UNCHANGED <<prog, s_input, s_concepts, s_alignments, s_rules, s_overall,
                   s_outcome, e_vars, a_vars, t_vars, m_vars, d_vars>>

\* Lines 312-319: the transformation rules are generated (the rule of an
\* alignment is updated in place) and listed.
generate_transformation_rules_step ==
    /\ prog = "server"
    /\ s_pc = "transformation_rules"
    /\ s_pc' = "final_analysis"
    /\ s_rules' = generate_transformation_rules(s_alignments)
    /\ s_alignments' = alignments_after_rules(s_alignments)
    /\ UNCHANGED <<prog, s_input, session_store, s_concepts, s_overall, s_outcome,
                   e_vars, a_vars, t_vars, m_vars, d_vars>>

\* Line 322: step 4 is announced; negotiate_schemas is suspended in the
\* send_json of _update_session.
update_final_analysis ==
    /\ prog = "server"
    /\ s_pc = "final_analysis"
    /\ s_pc' = "overall_confidence"
    /\ session_store' = update_session(session_store, session_id, "final_analysis", 95)
    /\ UNCHANGED <<prog, s_input, s_concepts, s_alignments, s_rules, s_overall,
                   s_outcome, e_vars, a_vars, t_vars, m_vars, d_vars>>

\* Lines 323-331: the overall confidence and the compliance notes.
calculate_overall_confidence_step ==
    /\ prog = "server"
    /\ s_pc = "overall_confidence"
    /\ s_pc' = "completed"
    /\ s_overall' = calculate_overall_confidence(s_alignments)
    /\ UNCHANGED <<prog, s_input, session_store, s_concepts, s_alignments, s_rules,
                   s_outcome, e_vars, a_vars, t_vars, m_vars, d_vars>>

\* Line 333: the session is marked completed.
update_completed ==
    /\ prog = "server"
    /\ s_pc = "completed"
    /\ s_pc' = "store_result"
    /\ session_store' = update_session(session_store, session_id, "completed", 100)
    /\ UNCHANGED <<prog, s_input, s_concepts, s_alignments, s_rules, s_overall,
                   s_outcome, e_vars, a_vars, t_vars, m_vars, d_vars>>

\* Lines 335-351: the result is built, stored in the session and the call returns.
store_result ==
    /\ prog = "server"
    /\ s_pc = "store_result"
    /\ s_pc' = "done"
    /\ session_store' = [session_store EXCEPT ![session_id].result =
          <<[session_id |-> session_id,
             alignments |-> s_alignments,
             transformation_rules |-> s_rules,
             overall_confidence |-> s_overall,
             summary |->
               [total_concepts |-> Len(s_concepts.italian),
                successful_alignments |->
                    Cardinality({k \in 1..Len(s_alignments) :
                                    s_alignments[k].alignment.confidence > 7000}),
                high_confidence_alignments |->
                    Cardinality({k \in 1..Len(s_alignments) :
                                    s_alignments[k].alignment.confidence > 8000}),
                transformation_rules_count |-> Len(s_rules)]]>>]
    /\ s_outcome' = "returned"
    /\ UNCHANGED <<prog, s_input, s_concepts, s_alignments, s_rules, s_overall, e_vars, a_vars, t_vars, m_vars, d_vars>>

NextServer ==
    \/ negotiate_schemas_begin
    \/ update_analyzing_schemas
    \/ extract_concepts_step
    \/ negotiate_schemas_raise
    \/ update_semantic_matching
    \/ update_processing_concept
    \/ process_concept
    \/ update_generating_transformations
    \/ generate_transformation_rules_step
    \/ update_final_analysis
    \/ calculate_overall_confidence_step
    \/ update_completed
    \/ store_result

(***************************************************************************)
(* cross_border_implementation.py: process_cross_border_request            *)
(***************************************************************************)
Countries == {"IT", "DE", "FR"}

Thresholds == {8000, 8500, 9000}

\* f"CBR_{int(time.time())}_{str(uuid.uuid4())[:8]}" of line 357.
request_id == "CBR_1"

InitAgent ==
    /\ prog = "agent"
    /\ a_pc = "call"
    /\ a_agent \in [confidence_threshold : Thresholds]
    /\ a_call \in [country_of_origin : Countries, target_country : Countries,
                    given_names : {<< >>, <<"Mario">>}]
    /\ active_requests = << >>
    /\ a_outcome = None
    /\ EnhancedIdle
    /\ ServerIdle
    /\ TransformIdle
    /\ ManagerIdle
    /\ DemoIdle

\* Lines 357-373: the request is created and registered; the print of line
\* 371 reads citizen.given_names[0] and raises IndexError for a citizen
\* without given names, the request already being registered.
process_cross_border_request_begin ==
    /\ prog = "agent"
    /\ a_pc = "call"
    /\ active_requests' = request_id :>
            [source_country |-> a_call.country_of_origin,
             target_country |-> a_call.target_country,
             status |-> "pending",
             alignments |-> << >>,
             transformation_map |-> << >>,
             confidence_score |-> 0]
    /\ IF a_call.given_names = << >>
       THEN a_pc' = "done" /\ a_outcome' = "raised"
       ELSE a_pc' = "negotiation" /\ UNCHANGED a_outcome
    /\ UNCHANGED <<prog, a_agent, a_call, e_vars, s_vars, t_vars, m_vars, d_vars>>

\* Lines 388-450: _perform_semantic_negotiation.  The schema lookups of lines
\* 393-394 are outside the try and raise KeyError for a country without a
\* schema; an exception of the pipeline is caught and the fallback runs.
perform_semantic_negotiation ==
    /\ prog = "agent"
    /\ a_pc = "negotiation"
    /\ LET request == active_requests[request_id]
       IN  IF request.source_country \notin DOMAIN country_schemas
              \/ request.target_country \notin DOMAIN country_schemas
           THEN /\ a_pc' = "done"
                /\ a_outcome' = "raised"
                /\ UNCHANGED active_requests
           ELSE /\ a_pc' = "validate"
                /\ \E outcome \in AlignerOutcomes :
                     LET alignments == IF outcome.ok
                                       THEN process_alignments(outcome.matchings)
                                       ELSE fallback_rule_based_alignment
                     IN  active_requests' = [active_requests EXCEPT ![request_id] =
                            [@ EXCEPT !.alignments = alignments,
                                      !.transformation_map =
                                          build_transformation_map(alignments,
                                              a_agent.confidence_threshold),
                                      !.confidence_score =
                                          IF outcome.ok THEN outcome.f_score * 100
                                          ELSE FALLBACK_CONFIDENCE]]
                /\ UNCHANGED a_outcome
    /\ UNCHANGED <<prog, a_agent, a_call, e_vars, s_vars, t_vars, m_vars, d_vars>>

\* Lines 378-386: the alignment quality is validated and the request returned.
validate_alignment_quality ==
    /\ prog = "agent"
    /\ a_pc = "validate"
    /\ a_pc' = "done"
    /\ active_requests' = [active_requests EXCEPT ![request_id].status =
            request_status(active_requests[request_id].confidence_score,
                           a_agent.confidence_threshold)]
    /\ a_outcome' = "returned"
    /\ UNCHANGED <<prog, a_agent, a_call, e_vars, s_vars, t_vars, m_vars, d_vars>>

NextAgent ==
    \/ process_cross_border_request_begin
    \/ perform_semantic_negotiation
    \/ validate_alignment_quality

(***************************************************************************)
(* cross_border_implementation.py: transform_citizen_data                  *)
(***************************************************************************)
\* Longest list of request.alignments drawn from the pool.
MaxAlignments == 2

SemanticAlignment(source_field, target_field, confidence_score, alignment_type, transformation_rule) ==
    [source_field |-> source_field, target_field |-> target_field,
     confidence_score |-> confidence_score, alignment_type |-> alignment_type,
     transformation_rule |-> transformation_rule]

\* Alignments a request can hold: those of the fallback and of
\* tests/test_semantic_negotiation.py, rules of the same kinds for other
\* field names, a TRANSFORM rule of _generate_transformation_rule, and direct
\* maps of a field to the field of the same name.
AlignmentPool ==
    { SemanticAlignment("cognome", "familienname", 9500, "exact", "DIRECT_MAP"),
      SemanticAlignment("data_nascita", "geburtsdatum", 8700, "exact", "DATE_FORMAT_TRANSFORM"),
      SemanticAlignment("genitori", "eltern", 7800, "related", "STRUCTURE_TRANSFORM"),
      SemanticAlignment("sesso", "geschlecht", 8900, "exact", "ENUM_TRANSFORM"),
      SemanticAlignment("codice_fiscale", "staatsangehoerigkeit", 6500, "related",
                        "DERIVE_NATIONALITY"),
      SemanticAlignment("gender", "geschlecht", 8900, "exact", "ENUM_TRANSFORM"),
      SemanticAlignment("parents", "eltern", 7800, "related", "STRUCTURE_TRANSFORM"),
      SemanticAlignment("tax_id", "nationality", 6500, "related", "DERIVE_NATIONALITY"),
      SemanticAlignment("nome", "vorname", 7500, "related", "TRANSFORM"),
      SemanticAlignment("codice_fiscale", "codice_fiscale", 9500, "exact", "DIRECT_MAP"),
      SemanticAlignment("staatsangehoerigkeit", "staatsangehoerigkeit", 9500, "exact",
                        "DIRECT_MAP") }

\* request.alignments: a list over the pool, or the whole fallback list.

genitori_value ==
    PyDict(<< <<"padre", Str("Giuseppe Rossi")>>, <<"madre", Str("Maria Bianchi")>> >>)

\* Source records: the ItalianANPRSchema of the tests, and records with
\* values the conversions treat differently.
RecordPool ==
    { "cognome" :> Str("Rossi") @@ "nome" :> Str("Marco")
        @@ "data_nascita" :> Str("15/03/1985") @@ "luogo_nascita" :> Str("Roma")
        @@ "codice_fiscale" :> Str("RSSMRC85C15H501Z")
        @@ "genitori" :> genitori_value @@ "sesso" :> Str("M"),
      << >>,
      "data_nascita" :> Str("invalid-date") @@ "sesso" :> Str("X")
        @@ "genitori" :> Str("unknown"),
      "data_nascita" :> PyNone @@ "cognome" :> Str("Rossi"),
      "data_nascita" :> PyInt(19850315),
      "data_nascita" :> Str("31/02/1985") @@ "sesso" :> PyNone,
      "data_nascita" :> Str("5/3/1985") @@ "sesso" :> Str("F")
        @@ "gender" :> Str("M") @@ "parents" :> genitori_value
        @@ "genitori" :> PyDict(<< <<"padre", Str("Giuseppe Rossi")>>,
                                   <<"madre", Str("")>>, <<"tutore", PyNone>> >>),
      "data_nascita" :> Str("15/03/0985") @@ "sesso" :> genitori_value
        @@ "gender" :> Str("X"),
      "codice_fiscale" :> Str("RSSMRC85C15H501Z")
        @@ "staatsangehoerigkeit" :> Str("German"),
      "codice_fiscale" :> Str("123456789") @@ "tax_id" :> Str("123456789"),
      "tax_id" :> Str("RSSMRC85C15H501Z") @@ "cognome" :> Str("Rossi"),
      "staatsangehoerigkeit" :> Str("Italian") }

InitTransform ==
    /\ prog = "transform"
    /\ t_pc = "call"
    /\ t_request \in [source_country : Countries, target_country : Countries,
                      alignments : UNION {[1..n -> AlignmentPool] : n \in 0..MaxAlignments}
                                       \cup {fallback_rule_based_alignment}]
    /\ t_source \in RecordPool
    /\ t_result = << >>
    /\ t_outcome = None
    /\ EnhancedIdle
    /\ ServerIdle
    /\ AgentIdle
    /\ ManagerIdle
    /\ DemoIdle

\* Lines 551-595: the whole call; it has no await in it.
transform_citizen_data ==
    /\ prog = "transform"
    /\ t_pc = "call"
    /\ t_pc' = "done"
    /\ LET transformed == transform(t_request, t_source)
       IN  /\ t_result' = transformed.value
           /\ t_outcome' = IF transformed.raises THEN "raised" ELSE "returned"
    /\ UNCHANGED <<prog, t_request, t_source, e_vars, s_vars, a_vars, m_vars, d_vars>>

NextTransform == transform_citizen_data

(***************************************************************************)
(* The ConnectionManager: a broadcast called on its own, and the calls     *)
(* that the websocket endpoints make while it, or a negotiation, is        *)
(* suspended.  broadcast can be suspended in `await                        *)
(* connection.send_text(message)`, and there only.                         *)
(***************************************************************************)
InitManager ==
    /\ prog = "manager"
    /\ m_class \in ManagerClasses
    /\ m_pc = "ready"
    /\ active_connections \in ConnectionLists
    /\ m_dead \in SUBSET Range(active_connections)
    /\ m_call = << >>
    /\ m_copy = << >>
    /\ m_index = 0
    /\ m_connection = None
    /\ m_delivered = {}
    /\ m_disconnected = {}
    /\ m_raised = {}
    /\ EnhancedIdle
    /\ ServerIdle
    /\ AgentIdle
    /\ TransformIdle
    /\ DemoIdle

\* The for statement takes its next item from `list`: broadcast either awaits
\* the send to that item or, at the end of the list, returns.
broadcast_advance(list, index) ==
    LET next == for_next(list, index)
    IN  /\ m_index' = next.index
        /\ m_connection' = next.item
        /\ m_pc' = IF next.stop THEN "returned" ELSE "sending"

\* Lines 41-42 (enhanced_demo.py 37-38): broadcast is called, up to its
\* first send_text.
broadcast ==
    /\ prog = "manager"
    /\ m_pc = "ready"
    /\ m_call' = active_connections
    /\ m_copy' = IF m_class = "enhanced_demo" THEN active_connections ELSE << >>
    /\ broadcast_advance(active_connections, 0)
    /\ UNCHANGED <<prog, m_class, active_connections, m_dead, m_delivered, m_disconnected,
                   m_raised, e_vars, s_vars, a_vars, t_vars, d_vars>>

\* Lines 43-47 (enhanced_demo.py 39-42): the awaited send_text ends.
send_text ==
    LET end == send_text_end(active_connections, m_connection, m_dead)
    IN  /\ prog = "manager"
        /\ m_pc = "sending"
        /\ IF end.raised
           THEN /\ m_pc' = "raised"
                /\ UNCHANGED <<m_index, m_connection>>
           ELSE broadcast_advance(iterated(m_class, m_copy, end.connections), m_index)
        /\ active_connections' = end.connections
        /\ m_delivered' = m_delivered \cup end.delivered
        /\ m_raised' = IF end.raised THEN m_raised \cup {"broadcast"} ELSE m_raised
        /\ UNCHANGED <<prog, m_class, m_dead, m_call, m_copy, m_disconnected,
                       e_vars, s_vars, a_vars, t_vars, d_vars>>

\* Lines 31-33 (enhanced_demo.py 29-31, called at 388): the endpoint of a new
\* client calls connect, also while a broadcast or a negotiation is
\* suspended.  The websockets are named in the order of their connect.
connect ==
    /\ m_class \in ManagerClasses
    /\ Cardinality(connected) < visitors
    /\ LET order == <<"ws1", "ws2", "ws3">>
           first == CHOOSE i \in DOMAIN order :
                        order[i] \notin connected /\ \A j \in 1..(i - 1) : order[j] \in connected
       IN  active_connections' = Append(active_connections, order[first])
    /\ UNCHANGED <<prog, m_class, m_pc, m_dead, m_call, m_copy, m_index, m_connection,
                   m_delivered, m_disconnected, m_raised, e_vars, s_vars, a_vars, t_vars, d_vars>>

\* enhanced_demo.py 389-392: the client of a websocket goes away.  From then
\* on send_text to it raises, and receive_text raises WebSocketDisconnect in
\* the task of its endpoint, which has still to run.
WebSocketDisconnect ==
    /\ m_class \in ManagerClasses
    /\ \E websocket \in Range(active_connections) \ m_dead :
         m_dead' = m_dead \cup {websocket}
    /\ UNCHANGED <<prog, m_class, m_pc, active_connections, m_call, m_copy, m_index,
                   m_connection, m_delivered, m_disconnected, m_raised,
                   e_vars, s_vars, a_vars, t_vars, d_vars>>

\* Lines 35-36 (enhanced_demo.py 33-35, called at 393): the endpoint of a
\* client that has gone calls disconnect(websocket), once, in its own task:
\* enhanced_demo.py looks the websocket up first, enhanced_server.py does not
\* and raises ValueError in that task when the websocket is not in the list.
disconnect ==
    /\ m_class \in ManagerClasses
    /\ \E websocket \in m_dead \ m_disconnected :
        /\ m_disconnected' = m_disconnected \cup {websocket}
        /\ IF list_contains(active_connections, websocket)
           THEN /\ active_connections' = list_remove(active_connections, websocket)
                /\ UNCHANGED m_raised
           ELSE /\ m_raised' = IF m_class = "enhanced_server"
                               THEN m_raised \cup {"disconnect"} ELSE m_raised
                /\ UNCHANGED active_connections
    /\ UNCHANGED <<prog, m_class, m_pc, m_dead, m_call, m_copy, m_index, m_connection,
                   m_delivered, e_vars, s_vars, a_vars, t_vars, d_vars>>

NextManager == broadcast \/ send_text \/ connect \/ WebSocketDisconnect \/ disconnect

NextEnhanced ==
    \/ negotiate
    \/ broadcast_step_update
    \/ negotiate_schema_analysis
    \/ analyze_semantic_similarity
    \/ make_alignment_decisions
    \/ generate_transformation_code
    \/ validate_compliance
    \/ negotiate_return
    \/ connect
    \/ WebSocketDisconnect
    \/ disconnect

(***************************************************************************)
(* enhanced_demo.py: the negotiations that the /negotiate route started as *)
(* tasks.  A task is suspended in the send_text of a broadcast and in the  *)
(* asyncio.sleep that follows every 'active' update, and there the other   *)
(* tasks and the websocket endpoints run.                                  *)
(***************************************************************************)
InitDemo ==
    /\ prog = "demo"
    /\ \E n \in 1..MaxNegotiations :
        /\ d_request \in [1..n -> DemoRequests]
        /\ d_pc = [t \in 1..n |-> 0]
        /\ d_pending = [t \in 1..n |-> << >>]
        /\ d_alignments = [t \in 1..n |-> << >>]
        /\ d_overall = [t \in 1..n |-> Unassigned]
        /\ d_result = [t \in 1..n |-> Unassigned]
        /\ d_sent = [t \in 1..n |-> << >>]
    /\ SumSeq([t \in DOMAIN d_request |-> Len(d_request[t].source_schema)]) <= MaxDemoFields
    /\ EnhancedIdle
    /\ ServerIdle
    /\ AgentIdle
    /\ TransformIdle
    /\ ManagerListening("enhanced_demo")

\* d_pc of a negotiation whose broadcast raised ValueError: the task has ended.
Raised == -1

\* Negotiation t goes on after message d_pc[t], with these locals, up to its
\* next await: every broadcast it calls takes its copy of the list (line 38);
\* after message 11 it returns the result.
demo_resume(t, connections, alignments, overall) ==
    LET last == last_update(d_pc[t], connections)
    IN  /\ d_pc' = [d_pc EXCEPT ![t] = last]
        /\ d_pending' = [d_pending EXCEPT ![t] = connections]
        /\ d_sent' = [d_sent EXCEPT ![t] = @ \o
                [number \in 1..(last - d_pc[t]) |->
                    demo_update(d_pc[t] + number, d_request[t], alignments, overall)]]
        /\ d_result' = IF last = 11 /\ connections = << >>
                       THEN [d_result EXCEPT ![t] = demo_result(alignments, overall)]
                       ELSE d_result

\* Line 383 and lines 55-61: the task of a negotiation starts and runs to its
\* first await.
create_task ==
    /\ prog = "demo"
    /\ \E t \in DOMAIN d_pc :
        /\ d_pc[t] = 0
        /\ demo_resume(t, active_connections, d_alignments[t], d_overall[t])
    /\ UNCHANGED <<prog, d_request, d_alignments, d_overall, m_vars,
                   e_vars, s_vars, a_vars, t_vars>>

\* Lines 37-42 under _send_step_update and line 108: the send_text that the
\* broadcast of negotiation t awaits ends.  The for statement walks the copy;
\* when it is exhausted broadcast returns and negotiate goes on, and a
\* ValueError of the except clause leaves broadcast and negotiate.
demo_send_text(t) ==
    LET end == send_text_end(active_connections, Head(d_pending[t]), m_dead)
    IN  /\ IF end.raised
           THEN /\ d_pc' = [d_pc EXCEPT ![t] = Raised]
                /\ d_pending' = [d_pending EXCEPT ![t] = << >>]
                /\ UNCHANGED <<d_sent, d_result>>
           ELSE IF Tail(d_pending[t]) /= << >>
           THEN /\ d_pending' = [d_pending EXCEPT ![t] = Tail(@)]
                /\ UNCHANGED <<d_pc, d_sent, d_result>>
           ELSE IF d_pc[t] \in {1, 3, 5, 7, 9}
           THEN /\ d_pending' = [d_pending EXCEPT ![t] = << >>]
                /\ UNCHANGED <<d_pc, d_sent, d_result>>
           ELSE IF d_pc[t] = 11
           THEN /\ d_pending' = [d_pending EXCEPT ![t] = << >>]
                /\ d_result' = [d_result EXCEPT ![t] =
                                    demo_result(d_alignments[t], d_overall[t])]
                /\ UNCHANGED <<d_pc, d_sent>>
           ELSE demo_resume(t, end.connections, d_alignments[t], d_overall[t])
        /\ active_connections' = end.connections
        /\ m_delivered' = m_delivered \cup end.delivered
        /\ m_raised' = IF end.raised THEN m_raised \cup {"broadcast"} ELSE m_raised
        /\ UNCHANGED <<prog, d_request, d_alignments, d_overall, m_class, m_pc, m_dead, m_call,
                       m_copy, m_index, m_connection, m_disconnected,
                       e_vars, s_vars, a_vars, t_vars>>

\* Lines 115-121: the send_text of a step update ends.
send_step_update ==
    /\ prog = "demo"
    /\ \E t \in DOMAIN d_pc :
        /\ d_pending[t] /= << >>
        /\ d_pc[t] < 11
        /\ demo_send_text(t)

\* Lines 59-62, 87-98: the sleep of step 1, 4 or 5 ends.
plain_step ==
    /\ prog = "demo"
    /\ \E t \in DOMAIN d_pc :
        /\ d_pc[t] \in {1, 7, 9}
        /\ d_pending[t] = << >>
        /\ demo_resume(t, active_connections, d_alignments[t], d_overall[t])
    /\ UNCHANGED <<prog, d_request, d_alignments, d_overall, m_vars,
                   e_vars, s_vars, a_vars, t_vars>>

\* Lines 66-73: the sleep of step 2 ends: the mock analysis and the
\* 'completed' update.
claude_analysis_step ==
    /\ prog = "demo"
    /\ \E t \in DOMAIN d_pc :
        /\ d_pc[t] = 3
        /\ d_pending[t] = << >>
        /\ LET fields == demo_aligned_fields(d_request[t].source_schema,
                                             d_request[t].target_schema)
           IN  \E draws \in [DOMAIN fields -> Draws] :
                 LET alignments == mock_semantic_analysis(d_request[t].source_schema,
                                                          d_request[t].target_schema, draws)
                 IN  /\ d_alignments' = [d_alignments EXCEPT ![t] = alignments]
                     /\ demo_resume(t, active_connections, alignments, d_overall[t])
    /\ UNCHANGED <<prog, d_request, d_overall, m_vars, e_vars, s_vars, a_vars, t_vars>>

\* Lines 77-84: the sleep of step 3 ends: the refinement and the 'completed'
\* update.
mistral_refinement_step ==
    /\ prog = "demo"
    /\ \E t \in DOMAIN d_pc :
        /\ d_pc[t] = 5
        /\ d_pending[t] = << >>
        /\ \E draws \in [DOMAIN d_alignments[t] -> Draws] :
             LET alignments == refine_alignments(d_alignments[t], draws)
                 overall_confidence == demo_mean(alignments)
             IN  /\ d_alignments' = [d_alignments EXCEPT ![t] = alignments]
                 /\ d_overall' = [d_overall EXCEPT ![t] = overall_confidence]
                 /\ demo_resume(t, active_connections, alignments, overall_confidence)
    /\ UNCHANGED <<prog, d_request, m_vars, e_vars, s_vars, a_vars, t_vars>>

\* Lines 100-113: the send_text of the final result ends; the result is
\* returned when the broadcast has.
send_final_result ==
    /\ prog = "demo"
    /\ \E t \in DOMAIN d_pc :
        /\ d_pending[t] /= << >>
        /\ d_pc[t] = 11
        /\ demo_send_text(t)

NextDemo ==
    \/ create_task
    \/ send_step_update
    \/ plain_step
    \/ claude_analysis_step
    \/ mistral_refinement_step
    \/ send_final_result
    \/ connect
    \/ WebSocketDisconnect
    \/ disconnect

vars == <<prog, e_vars, s_vars, a_vars, t_vars, m_vars, d_vars>>

SpecServer == InitServer /\ [][NextServer]_vars

SpecAgent == InitAgent /\ [][NextAgent]_vars

SpecSimilarity == InitSimilarity /\ [][analyze_semantic_similarity_alone]_vars

Init ==
    \/ InitEnhanced \/ InitServer \/ InitAgent \/ InitTransform
    \/ InitManager \/ InitDemo

Next ==
    \/ NextEnhanced \/ NextServer \/ NextAgent \/ NextTransform
    \/ NextManager \/ NextDemo

Spec == Init /\ [][Next]_vars

SpecEnhanced == InitEnhanced /\ [][NextEnhanced]_vars

SpecTransform == InitTransform /\ [][NextTransform]_vars

SpecManager == InitManager /\ [][NextManager]_vars

SpecDemo == InitDemo /\ [][NextDemo]_vars

(***************************************************************************)
(* The claims                                                              *)
(***************************************************************************)
\* The result that negotiate_schemas stored in the session.
ServerResult == session_store[session_id].result[1]

ServerReturned == prog = "server" /\ s_outcome = "returned"

\* An alignment of server.py made for a candidate: its best_match names a
\* field of the German schema (the placeholder's "unknown" names none).
MatchedAlignment(alignment) ==
    \E j \in 1..Len(s_input.german_schema) :
        alignment.alignment.best_match = s_input.german_schema[j].name

\* C1: after negotiate_schemas has returned, overall_confidence is the
\* arithmetic mean of the confidences of the alignments made for a candidate:
\* a source field without candidate contributes nothing, no placeholder
\* alignment is averaged in, and the value is 0 when no field was matched.
C1_OverallIsMeanOfMatched ==
    ServerReturned =>
        LET alignments == ServerResult.alignments
            matched == {k \in 1..Len(alignments) : MatchedAlignment(alignments[k])}
            total == SumSeq([k \in 1..Len(alignments) |->
                        IF k \in matched THEN alignments[k].alignment.confidence ELSE 0])
            count == IF matched = {} THEN 1 ELSE Cardinality(matched)
        IN  ServerResult.overall_confidence.num * count
                = total * ServerResult.overall_confidence.den

AgentReturned == prog = "agent" /\ a_outcome = "returned"

\* C2: the request is approved if and only if its confidence score is at
\* least the confidence threshold, and requires manual review otherwise; a
\* score equal to the threshold is approved.
C2_ApprovedIffAtLeastThreshold ==
    AgentReturned =>
        LET request == active_requests[request_id]
        IN  /\ request.status \in {"approved", "requires_manual_review"}
            /\ request.status = "approved"
                    <=> request.confidence_score >= a_agent.confidence_threshold

\* C2 witness: a returned request whose score equals the threshold, approved.
C2_Witness ==
    /\ AgentReturned
    /\ active_requests[request_id].confidence_score = a_agent.confidence_threshold
    /\ active_requests[request_id].status = "approved"

EnhancedReturned == prog = "enhanced" /\ e_pc = "returned"

\* C3: in every negotiation result each source field appears in exactly one
\* place, as the source of exactly one alignment or as an unmatched field, it
\* is never dropped, and no alignment has a placeholder target with a default
\* confidence.  The NegotiationResult of enhanced_server.py has no list of
\* unmatched fields, so an alignment is the one place it has for a field.
C3_EverySourceFieldAccounted ==
    /\ EnhancedReturned =>
          \A i \in 1..Len(e_request.source_schema) :
              Cardinality({k \in 1..Len(e_result.alignments) :
                  e_result.alignments[k].source_field = e_request.source_schema[i].name}) = 1
    /\ ServerReturned =>
          \A k \in 1..Len(ServerResult.alignments) :
              MatchedAlignment(ServerResult.alignments[k])

\* The negotiations whose schemas are well formed: every field_info of
\* server.py is a mapping (enhanced_server.py takes name -> type dicts).
WellFormedNegotiation ==
    \/ prog = "enhanced"
    \/ /\ prog = "server"
       /\ \A k \in 1..Len(s_input.italian_schema) : s_input.italian_schema[k].mapping
       /\ \A k \in 1..Len(s_input.german_schema) : s_input.german_schema[k].mapping

NegotiationFailed ==
    \/ /\ prog = "server"
       /\ \/ s_outcome = "raised"
          \/ /\ session_id \in DOMAIN session_store
             /\ session_store[session_id].status = "error"
    \/ /\ prog = "enhanced"
       /\ e_pc = "raised"

NegotiationEnded ==
    \/ prog = "enhanced" /\ e_pc \in {"returned", "raised"}
    \/ prog = "server" /\ s_pc = "done"

NegotiationReturnedResult ==
    \/ /\ EnhancedReturned
       /\ e_result /= Unassigned
    \/ /\ ServerReturned
       /\ session_store[session_id].status = "completed"
       /\ session_store[session_id].progress = 100
       /\ Len(session_store[session_id].result) = 1

\* C4: a negotiation over well-formed schemas never raises and never enters
\* the error state, and when it ends it has returned a result: also when a
\* source field has no candidate and when a field list is empty.
C4_NegotiationAlwaysReturns ==
    WellFormedNegotiation =>
        /\ ~NegotiationFailed
        /\ NegotiationEnded => NegotiationReturnedResult

\* enhanced_server.py: `similarities` has been computed (step 2 of negotiate
\* is done, or analyze_semantic_similarity called on its own has returned).
EnhancedScored == prog \in {"enhanced", "similarity"} /\ e_claude /= Unassigned

\* The index of the field of that name in a schema (names are dict keys).
FieldIndex(fields, name) == CHOOSE j \in 1..Len(fields) : fields[j].name = name

\* The target at j has the greatest confidence of row `confidences`, and it
\* is the earliest target that has it.
EarliestOfGreatest(confidences, j) ==
    /\ \A m \in 1..Len(confidences) : confidences[m] <= confidences[j]
    /\ \A m \in 1..(j - 1) : confidences[m] < confidences[j]

\* C5: for every source field the selected target is a candidate of maximum
\* score, and among several targets of the same maximum score it is the one
\* that comes first in the target sequence (enhanced_server.py: the
\* similarities of step 2; server.py: best_match of every alignment made).
C5_SelectedIsEarliestMaximum ==
    /\ EnhancedScored =>
          \A k \in 1..Len(e_claude.similarities) :
              LET i == FieldIndex(e_request.source_schema,
                                  e_claude.similarities[k].source_field)
                  j == FieldIndex(e_request.target_schema,
                                  e_claude.similarities[k].target_field)
              IN  EarliestOfGreatest(
                      [m \in 1..Len(e_request.target_schema) |->
                          e_scores[i][m].confidence], j)
    /\ ServerReturned =>
          \A k \in 1..Len(ServerResult.alignments) :
              MatchedAlignment(ServerResult.alignments[k]) =>
                  EarliestOfGreatest(
                      [m \in 1..Len(s_concepts.german) |->
                          concept_similarity(ServerResult.alignments[k].source.text,
                                             s_concepts.german[m].text)],
                      FieldIndex(s_concepts.german,
                                 ServerResult.alignments[k].alignment.best_match))

\* C5 witness: two targets tie at the greatest confidence of a source field,
\* and the selected one is the first of them.
C5_Witness ==
    /\ EnhancedScored
    /\ \E k \in 1..Len(e_claude.similarities) :
          LET i == FieldIndex(e_request.source_schema,
                              e_claude.similarities[k].source_field)
          IN  /\ Len(e_request.target_schema) = 2
              /\ e_scores[i][1].confidence = e_scores[i][2].confidence
              /\ e_claude.similarities[k].target_field = e_request.target_schema[1].name

\* The greatest confidence of the row of source field i, 0 for an empty row.
RowMax(i) ==
    IF e_scores[i] = << >> THEN 0
    ELSE LET m == CHOOSE m \in 1..Len(e_scores[i]) :
                      \A n \in 1..Len(e_scores[i]) :
                          e_scores[i][n].confidence <= e_scores[i][m].confidence
         IN  e_scores[i][m].confidence

\* Source field i has a similarity, that is, the selector returned a candidate.
Selected(i) ==
    \E k \in 1..Len(e_claude.similarities) :
        e_claude.similarities[k].source_field = e_request.source_schema[i].name

\* C6: the selector returns no candidate exactly when the greatest candidate
\* score is strictly below the floor of 0.3: a field whose greatest score is
\* the floor or more, such as a type-only match, gets an alignment, and a
\* greatest score of 0 gets none.
C6_NoneExactlyBelowFloor ==
    EnhancedScored =>
        \A i \in 1..Len(e_request.source_schema) :
            /\ ~Selected(i) <=> RowMax(i) < CLAUDE_FLOOR
            /\ RowMax(i) = 0 => ~Selected(i)
            /\ (\E j \in 1..Len(e_scores[i]) :
                    /\ e_scores[i][j].branch = "type"
                    /\ e_scores[i][j].confidence = RowMax(i)) => Selected(i)

\* The alignment_type that a score alone determines.
AlignmentTypeOfScore(score) ==
    IF score >= 9000 THEN "exact"
    ELSE IF score >= 6000 THEN "related"
    ELSE "unresolved"

\* cross_border_implementation.py: the request holds its alignments.
AgentAligned == prog = "agent" /\ a_pc \in {"validate", "done"} /\ a_outcome /= "raised"

\* C7: the alignment_type of every alignment is determined by its score
\* alone: exact from 0.9, related from 0.6 to below 0.9, unresolved below
\* 0.6; no alignment with a score below 0.9 is typed exact.
C7_TypeDeterminedByScore ==
    AgentAligned =>
        \A k \in 1..Len(active_requests[request_id].alignments) :
            LET alignment == active_requests[request_id].alignments[k]
            IN  alignment.alignment_type = AlignmentTypeOfScore(alignment.confidence_score)

\* C8: negotiating a source field named cognome against target fields that
\* include familienname yields an alignment cognome -> familienname that is
\* exact (a score of at least 0.9) and whose transformation is a direct map.
C8_CognomeToFamilienname ==
    ( /\ EnhancedReturned
      /\ \E i \in 1..Len(e_request.source_schema) :
            e_request.source_schema[i].name = "cognome"
      /\ \E j \in 1..Len(e_request.target_schema) :
            e_request.target_schema[j].name = "familienname" )
    => \E k \in 1..Len(e_result.alignments) :
          /\ e_result.alignments[k].source_field = "cognome"
          /\ e_result.alignments[k].target_field = "familienname"
          /\ AlignmentTypeOfScore(e_result.alignments[k].confidence) = "exact"
          /\ e_result.transformation_code[k].kind = "direct_mapping"

\* C9: every pair of a source field and a target field whose names are equal
\* ignoring case has the score 0.95 from the exact-name rule, whatever the
\* two types are and whether or not the source name has a synonym entry.
C9_EqualNamesScoreExact ==
    EnhancedScored =>
        \A i \in 1..Len(e_request.source_schema) :
            \A j \in 1..Len(e_request.target_schema) :
                lower(Chars(e_request.source_schema[i].name))
                        = lower(Chars(e_request.target_schema[j].name))
                    => /\ e_scores[i][j].confidence = 9500
                       /\ e_scores[i][j].branch = "exact"

\* C9 witness: a scored pair whose names differ in case only and whose types
\* differ, the source name having a synonym entry.
C9_Witness ==
    /\ EnhancedScored
    /\ \E i \in 1..Len(e_request.source_schema) :
          \E j \in 1..Len(e_request.target_schema) :
              /\ e_request.source_schema[i].name = "nome"
              /\ e_request.target_schema[j].name = "NOME"
              /\ e_request.source_schema[i].type /= e_request.target_schema[j].type
              /\ "nome" \in DOMAIN semantic_mappings
              /\ e_scores[i][j].confidence = 9500
              /\ e_scores[i][j].branch = "exact"

\* The names share a token: the test of the scorer's third rule.
TokenOverlap(source, target) ==
    \E part \in Range(split(lower(Chars(source.name)), "_")) :
        contains(lower(Chars(target.name)), part)

\* The target is listed under the source name in the synonym table.
ListedSynonym(source, target) ==
    /\ source.name \in DOMAIN semantic_mappings
    /\ target.name \in Range(semantic_mappings[source.name])

\* C10: the rules are a strict cascade per pair.  A synonym pair scores
\* exactly 0.85; a pair that is neither an exact-name pair nor a listed
\* synonym pair goes on to the token-overlap rule (0.6 to 0.8), failing that
\* to the type rule (0.3 for equal types), else 0: also when the source name
\* has a synonym entry that does not list the target.
C10_StrictCascade ==
    EnhancedScored =>
        \A i \in 1..Len(e_request.source_schema) :
            \A j \in 1..Len(e_request.target_schema) :
                LET source == e_request.source_schema[i]
                    target == e_request.target_schema[j]
                    score == e_scores[i][j].confidence
                IN  IF lower(Chars(source.name)) = lower(Chars(target.name))
                    THEN score = 9500
                    ELSE IF ListedSynonym(source, target)
                    THEN score = 8500
                    ELSE IF TokenOverlap(source, target)
                    THEN score >= 6000 /\ score <= 8000
                    ELSE IF source.type = target.type
                    THEN score = 3000
                    ELSE score = 0

\* The kind of the decision table that a transformation rule of server.py
\* stands for; "none" for an alignment without rule.
KindOfServerRule(rule) ==
    CASE rule.type = "data_conversion" -> "date_format"
      [] rule.type = "field_mapping" -> "direct_map"
      [] rule.type = "identity_derivation" -> "derive_from_identifier"
      [] OTHER -> "none"

\* The same for a transformation_rule of cross_border_implementation.py;
\* TRANSFORM is no kind of the table.
KindOfAgentRule(rule) ==
    CASE rule = "DIRECT_MAP" -> "direct_map"
      [] rule = "DATE_FORMAT_TRANSFORM" -> "date_format"
      [] rule = "ENUM_TRANSFORM" -> "enum_map"
      [] rule = "STRUCTURE_TRANSFORM" -> "structure_flatten"
      [] rule = "DERIVE_NATIONALITY" -> "derive_from_identifier"
      [] rule = "MANUAL_REVIEW" -> "manual_review"
      [] OTHER -> "transform"

\* The name has a token (a piece between underscores) "date" or "datum".
HasDateToken(name) ==
    \E token \in Range(split(lower(Chars(name)), "_")) :
        token \in {Chars("date"), Chars("datum")}

\* The name is that of a national tax or fiscal identifier.
IdentityCodeName(name) ==
    \/ contains(lower(Chars(name)), Chars("fiscal"))
    \/ contains(lower(Chars(name)), Chars("tax"))

\* The ordered decision table: the kind of the first row that holds.
RuleKindOfTable(source, target, score) ==
    IF HasDateToken(source.name) THEN "date_format"
    ELSE IF source.enum /\ target.enum THEN "enum_map"
    ELSE IF source.type = "object" /\ target.type = "array" THEN "structure_flatten"
    ELSE IF IdentityCodeName(source.name) THEN "derive_from_identifier"
    ELSE IF score >= 9000 THEN "direct_map"
    ELSE "manual_review"

\* A concept of server.py as a field of the table: its concepts carry no
\* enum values.
ServerField(concept) ==
    [name |-> concept.name, type |-> concept.type, enum |-> FALSE]

\* A concept of the schema ontologies of cross_border_implementation.py.
AgentField(name) ==
    [name |-> name, type |-> concept_data_type[name],
     enum |-> name \in DOMAIN concept_enum]

\* C11: the kind of every alignment's transformation rule is the first row of
\* the ordered table that holds: date/datum token in the source name ->
\* date_format; enum values on both sides -> enum_map; object to array ->
\* structure_flatten; identity-code name -> derive_from_identifier; score
\* >= 0.9 -> direct_map; otherwise manual_review.  It is stated of the rules
\* that generate_alignment_decision (server.py) and
\* _generate_transformation_rule (cross_border_implementation.py) generate;
\* the fallback's alignments are a fixed list and carry no generated rule.
C11_RuleKindIsFirstRowOfTable ==
    /\ ServerReturned =>
          \A k \in 1..Len(ServerResult.alignments) :
              LET alignment == ServerResult.alignments[k]
              IN  MatchedAlignment(alignment) =>
                      KindOfServerRule(alignment.alignment.transformation_rule)
                          = RuleKindOfTable(
                                ServerField(alignment.source),
                                ServerField(s_concepts.german[
                                    FieldIndex(s_concepts.german,
                                               alignment.alignment.best_match)]),
                                alignment.alignment.confidence)
    /\ ( /\ AgentReturned
          /\ active_requests[request_id].alignments /= fallback_rule_based_alignment )
       => \A k \in 1..Len(active_requests[request_id].alignments) :
              LET alignment == active_requests[request_id].alignments[k]
              IN  KindOfAgentRule(alignment.transformation_rule)
                      = RuleKindOfTable(AgentField(alignment.source_field),
                                        AgentField(alignment.target_field),
                                        alignment.confidence_score)

TransformReturned == prog = "transform" /\ t_outcome = "returned"

\* The k-th alignment of the request is the one whose value the output holds
\* for its target: its source field is in the record, and no later alignment
\* with a source field in the record has the same target.
LastWriter(k) ==
    /\ t_request.alignments[k].source_field \in DOMAIN t_source
    /\ \A m \in (k + 1)..Len(t_request.alignments) :
          t_request.alignments[m].target_field = t_request.alignments[k].target_field
              => t_request.alignments[m].source_field \notin DOMAIN t_source

\* An ISO date 1985-03-15, alone or followed by a time component.
IsIsoDate19850315(value) ==
    /\ value.kind = "str"
    /\ Len(value.chars) >= 10
    /\ SubSeq(value.chars, 1, 10) = <<"1", "9", "8", "5", "-", "0", "3", "-", "1", "5">>
    /\ Len(value.chars) > 10 => value.chars[11] = "T"

\* C12: a source field data_nascita of type date aligned to the target
\* geburtsdatum of type date gets a transformation of kind date_format, and
\* the conversion of the value "15/03/1985" under that rule (Italy to
\* Germany) is the ISO date 1985-03-15, with or without a time component.
C12_DataNascitaDateFormat ==
    /\ ServerReturned =>
          \A k \in 1..Len(ServerResult.alignments) :
              LET alignment == ServerResult.alignments[k]
              IN  ( /\ alignment.source.name = "data_nascita"
                    /\ alignment.source.type = "date"
                    /\ alignment.alignment.best_match = "geburtsdatum" )
                  => KindOfServerRule(alignment.alignment.transformation_rule)
                        = "date_format"
    /\ ( /\ TransformReturned
         /\ t_request.source_country = "IT"
         /\ t_request.target_country = "DE" )
       => \A k \in 1..Len(t_request.alignments) :
              ( /\ t_request.alignments[k].source_field = "data_nascita"
                /\ t_request.alignments[k].target_field = "geburtsdatum"
                /\ t_request.alignments[k].transformation_rule = "DATE_FORMAT_TRANSFORM"
                /\ LastWriter(k)
                /\ t_source["data_nascita"] = Str("15/03/1985") )
              => IsIsoDate19850315(t_result["geburtsdatum"])

TransformEnded == prog = "transform" /\ t_pc = "done"

\* The value is no date in the format DD/MM/YYYY: not a str (None for a
\* missing value), or a str that strptime does not parse.
NotADate(value) == value.kind /= "str" \/ ~strptime(value.chars).ok

\* C13: a failure of the date conversion never escapes as an exception.  For
\* every raw value that is no date in the source format, values that are no
\* string included, the call returns, the output holds the raw value
\* unchanged, and a warning for the field is in the list of warnings
\* returned with the record.
C13_DateFailureNeverEscapes ==
    TransformEnded =>
        \A k \in 1..Len(t_request.alignments) :
            LET alignment == t_request.alignments[k]
            IN  ( /\ alignment.transformation_rule = "DATE_FORMAT_TRANSFORM"
                  /\ alignment.source_field \in DOMAIN t_source
                  /\ NotADate(t_source[alignment.source_field]) )
                => /\ t_outcome = "returned"
                   /\ LastWriter(k) =>
                          t_result[alignment.target_field]
                              = t_source[alignment.source_field]
                   /\ alignment.source_field \in Range(returned_warnings)

\* C14: the enum_map conversion returns the mapped value for every raw value
\* that is a key of the mapping table (M -> MALE, F -> FEMALE) and every
\* other raw value unchanged, for every enum_map rule, whatever the names of
\* its two fields.
C14_EnumMapForAnyRule ==
    TransformEnded =>
        \A k \in 1..Len(t_request.alignments) :
            LET alignment == t_request.alignments[k]
                value == t_source[alignment.source_field]
            IN  ( /\ alignment.transformation_rule = "ENUM_TRANSFORM"
                  /\ alignment.source_field \in DOMAIN t_source
                  /\ LastWriter(k) )
                => /\ t_outcome = "returned"
                   /\ t_result[alignment.target_field] =
                        IF value.kind = "str" /\ value.chars \in DOMAIN gender_map
                        THEN gender_map[value.chars] ELSE value

\* A value that is neither null nor empty.
NonEmptyValue(value) ==
    CASE value.kind = "NoneType" -> FALSE
      [] value.kind = "str" -> value.chars /= << >>
      [] value.kind \in {"dict", "list"} -> value.items /= << >>
      [] OTHER -> TRUE

\* The values of the items that are not empty, in the order of the items.
RECURSIVE NonEmptyValues(_)
NonEmptyValues(items) ==
    IF items = << >> THEN << >>
    ELSE (IF NonEmptyValue(Head(items)[2]) THEN <<Head(items)[2]>> ELSE << >>)
         \o NonEmptyValues(Tail(items))

\* C15: the structure_flatten conversion of a key-to-value mapping is the
\* sequence of exactly its non-empty values in the mapping's order, empty
\* and null values dropped, and a value that is no mapping is returned
\* unchanged: for every structure_flatten rule, whatever its field names.
C15_StructureFlattenForAnyRule ==
    TransformReturned =>
        \A k \in 1..Len(t_request.alignments) :
            LET alignment == t_request.alignments[k]
                value == t_source[alignment.source_field]
            IN  ( /\ alignment.transformation_rule = "STRUCTURE_TRANSFORM"
                  /\ alignment.source_field \in DOMAIN t_source
                  /\ LastWriter(k) )
                => t_result[alignment.target_field] =
                        IF value.kind = "dict"
                        THEN PyList(NonEmptyValues(value.items)) ELSE value

\* The nationality that a source country alone determines.
NationalityOfCountry(country) ==
    CASE country = "IT" -> Str("Italian")
      [] country = "DE" -> Str("German")
      [] OTHER -> Str(country)

\* C16: the value derived from an identifier depends on the source country
\* only, never on the identifier: Italian for Italy, German for Germany, and
\* the country's own label for a country without a derivation.
C16_NationalityFromCountryOnly ==
    TransformReturned =>
        \A k \in 1..Len(t_request.alignments) :
            ( /\ t_request.alignments[k].transformation_rule = "DERIVE_NATIONALITY"
              /\ LastWriter(k) )
            => t_result[t_request.alignments[k].target_field]
                    = NationalityOfCountry(t_request.source_country)

\* C16 witness: an identifier of a country without a derivation (France) has
\* been converted, and the output holds the country's label.
C16_Witness ==
    /\ TransformReturned
    /\ t_request.source_country = "FR"
    /\ \E k \in 1..Len(t_request.alignments) :
          /\ t_request.alignments[k].transformation_rule = "DERIVE_NATIONALITY"
          /\ t_request.alignments[k].source_field = "tax_id"
          /\ LastWriter(k)
          /\ t_source["tax_id"] = Str("RSSMRC85C15H501Z")
          /\ t_result[t_request.alignments[k].target_field] = Str("FR")

\* The target fields of the alignments whose source field is in the record.
AlignedTargets ==
    {t_request.alignments[k].target_field :
        k \in {m \in 1..Len(t_request.alignments) :
                  t_request.alignments[m].source_field \in DOMAIN t_source}}

\* C17: the record that transform returns has a key for a target field if
\* and only if some alignment maps a source field of the source record to
\* that target: alignments of absent source fields are skipped, and a target
\* without alignment is never in the output.
C17_OutputKeysAreAlignedTargets ==
    TransformReturned => DOMAIN t_result = AlignedTargets

\* Every alignment of the request is a direct map of a field to the field of
\* the same name.
TrivialNegotiationResult ==
    \A k \in 1..Len(t_request.alignments) :
        /\ t_request.alignments[k].transformation_rule = "DIRECT_MAP"
        /\ t_request.alignments[k].source_field = t_request.alignments[k].target_field

\* The record has the shape of the target: each of its fields is aligned.
TargetShapedRecord ==
    \A name \in DOMAIN t_source :
        \E k \in 1..Len(t_request.alignments) :
            t_request.alignments[k].target_field = name

\* C18: under a negotiation result of direct maps of same-named fields,
\* transform returns the aligned fields of a target-shaped record unchanged,
\* and transform applied to its own output returns that output again.
C18_IdempotentOnTrivialResult ==
    ( /\ TransformEnded
      /\ TrivialNegotiationResult
      /\ TargetShapedRecord )
    => /\ t_outcome = "returned"
       /\ \A name \in DOMAIN t_source :
             /\ name \in DOMAIN t_result
             /\ t_result[name] = t_source[name]
       /\ transform(t_request, t_result) = returns(t_result)

\* The synonym table lists two names under each other in both directions or in
\* neither.
SymmetricSynonyms(a, b) ==
    (a \in DOMAIN semantic_mappings /\ b \in Range(semantic_mappings[a]))
    <=> (b \in DOMAIN semantic_mappings /\ a \in Range(semantic_mappings[b]))

SymmetricSynonymTable ==
    \A i \in DOMAIN e_request.source_schema :
        \A j \in DOMAIN e_request.target_schema :
            SymmetricSynonyms(e_request.source_schema[i].name,
                              e_request.target_schema[j].name)

\* The pairs of the negotiation that was run, source name first.
ForwardPairs ==
    {<<e_result.alignments[k].source_field, e_result.alignments[k].target_field>> :
        k \in DOMAIN e_result.alignments}

\* The pairs of the negotiation of the target schema against the source
\* schema, for one choice of its draws, source name first.
ReversePairs(draw) ==
    LET source_fields == e_request.target_schema
        target_fields == e_request.source_schema
        similarities == similarities_from(source_fields, target_fields,
                            pair_scores(source_fields, target_fields, draw), 1)
    IN  {<<similarities[k].source_field, similarities[k].target_field>> :
            k \in DOMAIN similarities}

ReverseDraws ==
    [1..Len(e_request.target_schema) ->
        [1..Len(e_request.source_schema) -> Draws]]

\* C19: with a symmetric synonym table, negotiating schema A against B and
\* then B against A yields the same set of aligned field-name pairs: each pair
\* (a, b) of the first result appears as (b, a) in the second, and conversely.
C19_RoundTripSamePairs ==
    (EnhancedReturned /\ SymmetricSynonymTable) =>
        \A draw \in ReverseDraws :
            ReversePairs(draw) = {<<pair[2], pair[1]>> : pair \in ForwardPairs}

\* The alignment that negotiate_schemas makes for the k-th field of the
\* Italian schema, computed from that field and the German schema alone.
ServerAlignmentOf(k) ==
    LET italian_concept == extract_concepts(s_input.italian_schema, "italian")[k]
        german == extract_concepts(s_input.german_schema, "german")
        similar_concepts ==
            find_similar_concepts(italian_concept.text,
                [j \in 1..Len(german) |-> german[j].text])
    IN  alignments_after_rules(
            <<[source |-> italian_concept,
               alignment |-> generate_alignment_decision(italian_concept,
                    SubSeq(similar_concepts, 1, Min(5, Len(similar_concepts))))]>>)[1]

\* The run of the enhanced negotiation in which every random.uniform returns
\* the low end of its interval.
ReferenceDecisions ==
    LET source_fields == e_request.source_schema
        target_fields == e_request.target_schema
        draw == [i \in 1..Len(source_fields) |-> [j \in 1..Len(target_fields) |-> 1]]
        similarities == similarities_from(source_fields, target_fields,
                            pair_scores(source_fields, target_fields, draw), 1)
    IN  alignment_decisions(similarities, [k \in 1..Len(similarities) |-> 1])

\* C20: negotiation is reproducible: every negotiate call on the same source
\* and target fields returns the same alignments (same targets, same
\* confidences, in source-field order) and the same overall_confidence, and
\* each source field's alignment depends only on that field and the target
\* list.  A returned result therefore equals the one computed from the input
\* alone, field by field, and equals the result of any other run on that input.
C20_Reproducible ==
    /\ ServerReturned =>
          /\ Len(ServerResult.alignments) = Len(s_input.italian_schema)
          /\ \A k \in DOMAIN ServerResult.alignments :
                ServerResult.alignments[k] = ServerAlignmentOf(k)
          /\ ServerResult.overall_confidence
                = calculate_overall_confidence(ServerResult.alignments)
    /\ EnhancedReturned =>
          /\ e_result.alignments = ReferenceDecisions.alignments
          /\ e_result.overall_confidence = ReferenceDecisions.overall_confidence

\* How a call that did not complete left its registered object: the session
\* of negotiate_schemas, the request of process_cross_border_request.
PendingStatuses ==
    {"pending", "started", "analyzing_schemas", "semantic_matching",
     "generating_transformations", "final_analysis"}
        \cup {processing_status(k) : k \in 1..4}

ServerRaised == prog = "server" /\ s_outcome = "raised"

AgentRaised == prog = "agent" /\ a_outcome = "raised"

\* C21: a negotiation that fails part-way leaves nothing partial behind: the
\* session or request of a negotiation that did not complete is not left
\* registered in a pending state or with a partly filled result, and a result
\* that an observer can read is the complete final one.
C21_NothingPartialLeftBehind ==
    /\ ServerRaised =>
          \A id \in DOMAIN session_store :
              /\ session_store[id].status \notin PendingStatuses
              /\ session_store[id].result = << >>
    /\ AgentRaised =>
          \A id \in DOMAIN active_requests :
              active_requests[id].status \notin PendingStatuses
    /\ \A id \in DOMAIN session_store :
          session_store[id].result /= << >> => ServerReturned

\* The request of a call whose aligner pipeline raised: it holds the
\* alignments of the fallback.
FellBack ==
    /\ prog = "agent"
    /\ request_id \in DOMAIN active_requests
    /\ active_requests[request_id].alignments = fallback_rule_based_alignment

\* C22: when the external aligner fails, the negotiation still returns
\* alignments, those of the fallback, and its overall confidence and its
\* decision are computed from the fallback alignments' own confidences: the
\* confidence is their mean and the request is approved exactly when that mean
\* reaches the threshold.
C22_FallbackConfidenceFromAlignments ==
    (AgentReturned /\ FellBack) =>
        LET request == active_requests[request_id]
            total == SumSeq([k \in 1..Len(request.alignments) |->
                                request.alignments[k].confidence_score])
        IN  /\ Len(request.alignments) > 0
            /\ request.confidence_score * Len(request.alignments) = total
            /\ request.status = "approved"
                  <=> total >= a_agent.confidence_threshold * Len(request.alignments)

\* C23: for every alignment of a result, the confidence that was compared
\* with the floor to accept it is the number stored on the alignment and the
\* number that enters the mean overall_confidence: no refinement, jitter or
\* rounding changes it between the accept test and the aggregation.
C23_OneConfidencePerAlignment ==
    EnhancedReturned =>
        LET alignments == e_result.alignments
            stored == [k \in 1..Len(alignments) |-> alignments[k].confidence]
        IN  /\ \A k \in 1..Len(alignments) :
                  alignments[k].confidence =
                      RowMax(FieldIndex(e_request.source_schema,
                                        alignments[k].source_field))
            /\ e_mistral.total_confidence = SumSeq(stored)
            /\ Len(alignments) > 0 =>
                  e_result.overall_confidence
                      = round3_div(float_sum(float_literal(0),
                            [k \in 1..Len(alignments) |-> float_literal(stored[k])]),
                            Len(alignments))

\* A schema of negotiate_schemas that is structurally invalid: a field with an
\* empty name, without a data type, whose description is not a mapping, or
\* two fields of one name.
InvalidSchema(schema) ==
    \/ \E k \in 1..Len(schema) :
          \/ schema[k].name = ""
          \/ schema[k].type = None
          \/ ~schema[k].mapping
    \/ \E k, l \in 1..Len(schema) : k /= l /\ schema[k].name = schema[l].name

\* C24: structurally invalid input is rejected before any alignment is
\* produced: negotiate_schemas fails with an error reported to the caller, no
\* session state is created for the call and no result is produced.
C24_InvalidInputRejected ==
    ( /\ prog = "server"
      /\ \/ InvalidSchema(s_input.italian_schema)
         \/ InvalidSchema(s_input.german_schema) )
    => /\ session_store = << >>
       /\ s_alignments = << >>
       /\ s_pc = "done" => s_outcome = "raised"

\* C25: an alignment and its transformation rule are not modified after they
\* are created: every step of a negotiation leaves the alignments already in
\* the list `alignments` as they are (confidence, target and rule), and a
\* result once stored or returned is not changed.
C25_AlignmentsNotModified ==
    [][ /\ \A k \in DOMAIN s_alignments :
              /\ k \in DOMAIN s_alignments'
              /\ s_alignments'[k] = s_alignments[k]
        /\ \A id \in DOMAIN session_store :
              session_store[id].result /= << >> =>
                  session_store'[id].result = session_store[id].result
        /\ e_result /= Unassigned => e_result' = e_result ]_vars

\* C27: in the session store, whenever a session's status is 'completed'
\* (progress 100) its result is available to get_session_result, at every
\* point of the negotiation, and a session in status 'error' never has a
\* result.
C27_CompletedHasResult ==
    \A id \in DOMAIN session_store :
        /\ (session_store[id].status = "completed" \/ session_store[id].progress = 100)
              => get_session_result(session_store, id) /= << >>
        /\ session_store[id].status = "error"
              => get_session_result(session_store, id) = << >>

\* What every report of a session's progress satisfies: the progress is
\* within 0..100 and 100 is reported only with status 'completed'.
ProgressInRange ==
    \A id \in DOMAIN session_store :
        /\ session_store[id].progress \in 0..100
        /\ session_store[id].progress = 100 => session_store[id].status = "completed"

\* C30: a session's reported progress stays within 0..100 and never
\* decreases from the start of a negotiation until it reaches status
\* 'completed' with progress 100, for every number of source concepts, and
\* progress 100 is reported only with status 'completed'.
C30_ProgressNeverDecreases ==
    /\ []ProgressInRange
    /\ [][ \A id \in DOMAIN session_store :
              id \in DOMAIN session_store'
              /\ session_store'[id].progress >= session_store[id].progress ]_vars

\* C28: ConnectionManager.broadcast delivers the message to every connection
\* that was live when it was called, also when other connections fail during
\* the same broadcast and are removed; once broadcast has returned, the list
\* holds exactly the connections whose send succeeded; and neither broadcast
\* nor a disconnect of a connection that broadcast already removed raises.
C28_BroadcastReachesEveryLiveConnection ==
    prog = "manager" =>
        /\ m_raised = {}
        /\ m_pc = "returned" =>
            /\ \A websocket \in Range(m_call) \ m_dead : websocket \in m_delivered
            /\ \A websocket \in Range(m_call) \ m_disconnected :
                    list_contains(active_connections, websocket) <=> websocket \in m_delivered

\* A confidence, in units of 1/10000, that lies in [0,1].
InUnitRange(x) == 0 <= x /\ x <= 10000

DemoReturned(t) == prog = "demo" /\ t \in DOMAIN d_pc /\ d_result[t] /= Unassigned

\* C26: in every result that a negotiation returns, every candidate score,
\* every alignment's confidence and overall_confidence lie in [0,1], after
\* every boost, penalty and refinement: in server.py, in enhanced_server.py
\* and in enhanced_demo.py.
C26_ConfidencesInUnitRange ==
    /\ ServerReturned =>
        /\ \A k \in 1..Len(ServerResult.alignments) :
              /\ InUnitRange(ServerResult.alignments[k].alignment.confidence)
              /\ "similarity_score" \in DOMAIN ServerResult.alignments[k].alignment =>
                    InUnitRange(ServerResult.alignments[k].alignment.similarity_score)
        /\ 0 <= ServerResult.overall_confidence.num
        /\ ServerResult.overall_confidence.num <= 10000 * ServerResult.overall_confidence.den
    /\ EnhancedReturned =>
        /\ \A i \in DOMAIN e_scores : \A j \in DOMAIN e_scores[i] :
              InUnitRange(e_scores[i][j].confidence)
        /\ \A k \in 1..Len(e_claude.similarities) :
              InUnitRange(e_claude.similarities[k].confidence)
        /\ \A k \in 1..Len(e_result.alignments) :
              InUnitRange(e_result.alignments[k].confidence)
        /\ InUnitRange(e_result.overall_confidence)
    /\ \A t \in DOMAIN d_pc : DemoReturned(t) =>
        /\ \A k \in 1..Len(d_result[t].alignments) :
              InUnitRange(d_result[t].alignments[k].confidence)
        /\ InUnitRange(d_result[t].overall_confidence)

\* The message is the update of step k with this status.
IsUpdate(message, k, status) ==
    message.type = "step_update" /\ message.step = k /\ message.status = status

\* The progress events of one negotiation are in order.
OrderedEvents(sent) ==
    /\ \A j \in DOMAIN sent : \A k \in 1..5 :
          /\ IsUpdate(sent[j], k, "completed") =>
                \E i \in 1..(j - 1) : IsUpdate(sent[i], k, "active")
          /\ (k < 5 /\ IsUpdate(sent[j], k + 1, "active")) =>
                \E i \in 1..(j - 1) : IsUpdate(sent[i], k, "completed")
    /\ \A j \in DOMAIN sent : sent[j].type = "final_result" =>
          /\ \E i \in 1..(j - 1) : IsUpdate(sent[i], 5, "completed")
          /\ \A i \in DOMAIN sent : sent[i].type = "final_result" => i = j

\* What a client receives names its negotiation: no message of one negotiation
\* is also a message of another one.
Attributable ==
    \A t, u \in DOMAIN d_sent :
        t /= u => \A i \in DOMAIN d_sent[t] : \A j \in DOMAIN d_sent[u] :
                      d_sent[t][i] /= d_sent[u][j]

\* C29: within one negotiation, for each step k in 1..5 the 'active' update
\* comes before the 'completed' update, step k is completed before step k+1
\* becomes active, and final_result is sent once and only after step 5 is
\* completed; and when two negotiations run at the same time on the shared
\* connection manager, a client can attribute every step update and final
\* result to one of them.
C29_ProgressEventsOrderedAndAttributable ==
    prog = "demo" =>
        /\ \A t \in DOMAIN d_sent : OrderedEvents(d_sent[t])
        /\ Attributable

====
